---- MODULE Spec2Model ----
(***************************************************************************)
(* ofxEbbControl: host-side driver of the EiBotBoard over a serial line.   *)
(* The model follows src/src/ofxEbbControl.h: sendCommand (the framing     *)
(* loops, one per command class), the facade operations built on it and    *)
(* the two function-local statics that hold the motor configuration.       *)
(*                                                                         *)
(* Strings are sequences of one-character strings.  A byte in the          *)
(* transport carries a ghost tag besides its character: "own" when the     *)
(* device emitted it in reply to the command of the sendCommand call now   *)
(* running, "late" when it is part of the reply to an earlier command but  *)
(* arrived during the running call, "stale" when it arrived before the     *)
(* running call began.                                                     *)
(***************************************************************************)
EXTENDS Integers, Sequences, FiniteSets, TLC

VARIABLES
    connected,       \* serial.isInitialized()
    pc,              \* position of the driver inside sendCommand, or "idle"
    op,              \* the facade operation in progress and its arguments
    cmd,             \* sendCommand's cmd argument
    timeoutMs,       \* sendCommand's timeoutMs argument
    clock,           \* ms since the running call wrote its command
    start,           \* the loop's start timestamp (steady_clock::now())
    tock,            \* flips when time passes with the clock at its cap
    responseBuffer,  \* the accumulator of the running loop (tagged bytes)
    outcome,         \* what sendCommand returned or threw
    rx,              \* bytes received by the transport, not yet read
    wire,            \* lines the operation handed to serial.writeBytes
    inbox,           \* written lines the device has not answered yet
    devPending,      \* bytes of its current reply the device has not emitted
    devCur,          \* that reply answers the running call's command
    devMem,          \* the layer, node count and nickname the device holds
    lastKnownConfig, \* the static of getLastKnownMotorConfig()
    queryConfig,     \* the static lastKnownConfig local to getMotorConfig()
    result,          \* how the last finished operation ended
    hist,            \* ghost: what the calls so far told the device
    lastByteAt,      \* ghost: the clock when the loop last read a byte
    drained          \* ghost: the drain loop of this call discarded bytes

vars == <<connected, pc, op, cmd, timeoutMs, clock, start, tock, responseBuffer,
          outcome, rx, wire, inbox, devPending, devCur, devMem,
          lastKnownConfig, queryConfig, result, hist, lastByteAt, drained>>

driverVars == <<connected, pc, op, cmd, timeoutMs, clock, start, tock,
                responseBuffer, outcome, wire, lastKnownConfig, queryConfig,
                result, hist, lastByteAt, drained>>

----------------------------------------------------------------------------
(* Program constants *)

MOTOR_DISABLE == 0
MOTOR_STEP_DIV16 == 1
MOTOR_STEP_DIV1 == 5
DefaultTimeoutMs == 3000
QmTimeoutMs == 1000
SettleMs == 10
PollMs == 1
QuietMs == 100
DrainChunk == 256
QmMinLen == 7
NickMax == 16
IntMax == 2147483647
IntMin == -IntMax - 1

(* Bounds of the model *)

Fine == 0          \* extra ms observed before and after each deadline
MaxRx == 1         \* bytes the transport holds unread
MaxInbox == 1      \* written lines the device may leave unanswered
MaxNoise == 2      \* unasked-for bytes a loop accumulates

----------------------------------------------------------------------------
(* Characters and strings *)

CR == "\r"
LF == "\n"

Digits == <<"0", "1", "2", "3", "4", "5", "6", "7", "8", "9">>

IsDigit(c) == \E i \in 1..10 : Digits[i] = c

IsXDigit(c) == IsDigit(c) \/ c \in {"a", "b", "c", "d", "e", "f",
                                    "A", "B", "C", "D", "E", "F"}

Min(a, b) == IF a < b THEN a ELSE b

\* std::string::find(pat): the first position (from 1) where pat occurs in s,
\* 0 for npos.
Find(s, pat) ==
    LET hits == {i \in 1..(Len(s) - Len(pat) + 1) :
                    SubSeq(s, i, i + Len(pat) - 1) = pat}
    IN IF hits = {} THEN 0 ELSE CHOOSE i \in hits : \A j \in hits : i <= j

Contains(s, pat) == Find(s, pat) # 0

\* The characters of s that satisfy Keep(_), in order (remove_if + erase, and
\* the "cleaned" loops).
RECURSIVE Filter(_, _)
Filter(s, keep) ==
    IF s = <<>> THEN <<>>
    ELSE IF Head(s) \in keep THEN <<Head(s)>> \o Filter(Tail(s), keep)
    ELSE Filter(Tail(s), keep)

RECURSIVE Without(_, _)
Without(s, drop) ==
    IF s = <<>> THEN <<>>
    ELSE IF Head(s) \in drop THEN Without(Tail(s), drop)
    ELSE <<Head(s)>> \o Without(Tail(s), drop)

\* s.substr(0, n)
Prefix(s, n) == SubSeq(s, 1, Min(n, Len(s)))

\* std::to_string of a non-negative int.
RECURSIVE NatStr(_)
NatStr(n) == IF n < 10 THEN <<Digits[n + 1]>>
             ELSE NatStr(n \div 10) \o <<Digits[(n % 10) + 1]>>

toStr(v) == IF v = IntMin THEN <<"-">> \o NatStr(IntMax \div 10) \o NatStr((IntMax % 10) + 1)
            ELSE IF v < 0 THEN <<"-">> \o NatStr(-v) ELSE NatStr(v)

\* split(s, delim): std::getline pieces; a trailing empty piece is not
\* produced, and a piece's trailing CR is removed.
RECURSIVE SplitFrom(_, _, _)
SplitFrom(s, delim, item) ==
    LET done(it) == IF it # <<>> /\ it[Len(it)] = CR
                    THEN SubSeq(it, 1, Len(it) - 1) ELSE it
    IN IF s = <<>> THEN (IF item = <<>> THEN <<>> ELSE <<done(item)>>)
       ELSE IF Head(s) = delim
            THEN <<done(item)>> \o SplitFrom(Tail(s), delim, <<>>)
            ELSE SplitFrom(Tail(s), delim, Append(item, Head(s)))

split(s, delim) == SplitFrom(s, delim, <<>>)

Chars(buf) == [i \in 1..Len(buf) |-> buf[i].ch]

----------------------------------------------------------------------------
(* The transport and the device *)

\* serial.available(): what a closed port reports (0 or an error code) is
\* never > 0.
available == IF connected THEN Len(rx) ELSE 0

\* The framing rule sendCommand picks for a command.
Kind(c) == IF c = <<"V">> THEN "V"
           ELSE IF c = <<"Q", "G">> THEN "QG"
           ELSE IF c = <<"Q", "M">> THEN "QM"
           ELSE "OK"

\* What a written line asks the device for: the query it names, or else the
\* kind of the line.
Opcode(c) ==
    LET p == SubSeq(c, 1, Min(2, Len(c)))
    IN CASE p = <<"Q", "S">> -> "QS" [] p = <<"Q", "B">> -> "QB" [] p = <<"Q", "R">> -> "QR"
         [] p = <<"Q", "P">> -> "QP" [] p = <<"Q", "L">> -> "QL" [] p = <<"Q", "N">> -> "QN"
         [] p = <<"Q", "T">> -> "QT" [] p = <<"Q", "C">> -> "QC" [] p = <<"E", "S">> -> "ES"
         [] p = <<"M", "R">> -> "MR" [] p = <<"P", "I">> -> "PI" [] p = <<"I">> -> "I"
         [] p = <<"A">> -> "A"
         [] OTHER -> Kind(c)

\* The status bytes the device may report, and the reply to QG: two upper-case
\* hexadecimal digits and a line end.
StatusBytes == {0, 1, 2, 62, 128, 255}

HexDigits == <<"0", "1", "2", "3", "4", "5", "6", "7", "8", "9", "A", "B", "C", "D", "E", "F">>

Hex2(b) == <<HexDigits[(b \div 16) + 1], HexDigits[(b % 16) + 1]>>

\* The step positions the device may report.
StepValues == {-15, 0, 7}

\* The reply to QS: "<a>,<b>OK".
StepReply(a, b) == toStr(a) \o <<",">> \o toStr(b) \o <<"O", "K">>

\* What the device may answer to a written line.  The device emits byte by
\* byte and may go silent at any point.
Replies(opcode) ==
    CASE opcode = "V"  -> {<<"E", "B">>}
      [] opcode = "QG" -> {Hex2(b) \o <<CR, LF>> : b \in StatusBytes} \cup {<<"!", "3">>}
      [] opcode = "QM" -> {<<"Q", "M", ",", "0", ",", "1", ",", "0", ",", "0", LF>>,
                           <<"Q", "M", ",", "1", ",", "1", ",", "1", ",", "0", LF>>,
                           <<"!", LF>>}
      [] opcode = "QS" -> {StepReply(a, b) : a, b \in StepValues}
                              \cup {<<",", "1", "O", "K">>}
      [] opcode = "QB" -> {<<"1", "O", "K">>}
      [] opcode = "QR" -> {<<"1", "O", "K">>}
      [] opcode = "QP" -> {<<"0", "O", "K">>, <<"1", "O", "K">>}
      [] opcode = "QL" -> {<<"5", "O", "K">>}
      [] opcode = "QN" -> {<<"4", "2", "O", "K">>}
      [] opcode = "QT" -> {<<"a", "b", "O", "K">>}
      [] opcode = "QC" -> {<<"3", ",", "9", "O", "K">>, <<"3", "O", "K">>}
      [] opcode = "ES" -> {<<"1", ",", "2", ",", "3", ",", "4", ",", "5", "O", "K">>}
      [] opcode = "MR" -> {<<"M", "R", ",", "7", "O", "K">>}
      [] opcode = "PI" -> {<<"P", "I", ",", "1", "O", "K">>}
      [] opcode = "I"  -> {<<"I", ",", "1", ",", "2", ",", "3", ",", "4", ",", "5", "O", "K">>}
      [] opcode = "A"  -> {<<"A", ",", "0", ":", "5", "O", "K">>}
      [] OTHER -> {<<"O", "K", CR>>, <<"!", "O">>}

\* The device turns to the oldest written line it has not answered yet and
\* chooses its reply.
DevicePick ==
    /\ devPending = <<>>
    /\ inbox # <<>>
    /\ \E r \in Replies(Head(inbox).opcode) : devPending' = r
    /\ devCur' = Head(inbox).cur
    /\ inbox' = Tail(inbox)
    /\ UNCHANGED <<driverVars, rx, devMem>>

\* The device emits the next byte of its reply; a closed port loses it.
DeviceEmit ==
    /\ devPending # <<>>
    /\ Len(rx) < MaxRx
    /\ devPending' = Tail(devPending)
    /\ rx' = IF connected
             THEN Append(rx, [ch |-> Head(devPending),
                              tag |-> IF devCur THEN "own" ELSE "late"])
             ELSE rx
    /\ UNCHANGED <<driverVars, inbox, devCur, devMem>>

\* The commands that change what the device holds: set layer, set node count,
\* set nickname, node count increment and decrement.
StoreCmds == {<<"S", "L">>, <<"S", "N">>, <<"S", "T">>, <<"N", "I">>, <<"N", "D">>}

\* The written line, kept for the device when it is one of these commands.
Stored(c) == IF SubSeq(c, 1, Min(2, Len(c))) \in StoreCmds THEN c ELSE <<>>

\* The largest node count of the model (the device's is 2^32 - 1).
NodeCap == IntMax

\* The decimal value of a digit string, as the device reads an argument.
RECURSIVE DevNum(_)
DevNum(ds) ==
    IF ds = <<>> THEN 0
    ELSE 10 * DevNum(SubSeq(ds, 1, Len(ds) - 1))
         + (CHOOSE d \in 0..9 : Digits[d + 1] = ds[Len(ds)])

\* What the device holds after it has carried out a written line.
Apply(mem, line) ==
    LET p == SubSeq(line, 1, Min(2, Len(line)))
        arg == SubSeq(line, 4, Len(line))
    IN CASE p = <<"S", "L">> -> [mem EXCEPT !.layer = DevNum(arg)]
         [] p = <<"S", "N">> -> [mem EXCEPT !.node = DevNum(arg)]
         [] p = <<"S", "T">> -> [mem EXCEPT !.nick = arg]
         [] p = <<"N", "I">> -> [mem EXCEPT !.node = mem.node + 1]
         [] p = <<"N", "D">> -> [mem EXCEPT !.node = mem.node - 1]
         [] OTHER -> mem

\* The reply of a device that holds mem to QL, QN and QT: the value on a line
\* of its own, then the status line; to every other line, the status line.
StatusLine == <<"O", "K", CR, LF>>

StoredReply(opcode, mem) ==
    CASE opcode = "QL" -> NatStr(mem.layer) \o <<CR, LF>> \o StatusLine
      [] opcode = "QN" -> NatStr(mem.node) \o <<CR, LF>> \o StatusLine
      [] opcode = "QT" -> mem.nick \o <<CR, LF>> \o StatusLine
      [] OTHER -> StatusLine

\* A device that keeps the layer, the node count and the nickname it was
\* given: it carries out the oldest written line and answers it from what it
\* holds.
DeviceStore ==
    /\ devPending = <<>>
    /\ inbox # <<>>
    /\ devMem' = Apply(devMem, Head(inbox).store)
    /\ devPending' = StoredReply(Head(inbox).opcode, devMem)
    /\ devCur' = Head(inbox).cur
    /\ inbox' = Tail(inbox)
    /\ UNCHANGED <<driverVars, rx>>

\* A device that emits bytes nobody asked for, at any rate, for as long as it
\* likes; the bytes a polling loop accumulates from it are capped.
DeviceChatter ==
    /\ connected
    /\ Len(rx) < MaxRx
    /\ Len(responseBuffer) < MaxNoise
    /\ rx' = Append(rx, [ch |-> "x", tag |-> "noise"])
    /\ UNCHANGED <<driverVars, inbox, devPending, devCur, devMem>>

----------------------------------------------------------------------------
(* sendCommand *)

OK == <<"O", "K">>

DefaultNickname == <<"E", "B", "B", " ", "C", "o", "n", "t", "r", "o", "l", "l", "e", "r">>

\* The message of the runtime_error a framing loop throws at its deadline.
TimedOut(c) == <<"C", "o", "m", "m", "a", "n", "d", " ", "'">> \o c
               \o <<"'", " ", "t", "i", "m", "e", "d", " ", "o", "u", "t">>

DigitSet == {Digits[i] : i \in 1..10}

\* What sendCommand returns once the generic loop has found the OK marker: the
\* branches on cmd.substr(0, 2).
PostProcess(c, buf) ==
    LET p == Prefix(c, 2)
        okPos == Find(buf, OK)
        beforeOk == IF okPos # 0 THEN SubSeq(buf, 1, okPos - 1) ELSE buf
    IN CASE p = <<"Q", "P">> ->
                IF Contains(buf, <<"0", "O", "K">>) THEN <<"0">> ELSE <<"1">>
         [] p = <<"Q", "S">> -> Filter(beforeOk, DigitSet \cup {",", "-"})
         [] p = <<"Q", "T">> ->
                LET nickname == Without(beforeOk, {CR, LF})
                IN IF nickname = <<>> THEN DefaultNickname ELSE nickname
         [] p = <<"Q", "B">> ->
                IF Contains(buf, <<"1", "O", "K">>) THEN <<"1">> ELSE <<"0">>
         [] p = <<"Q", "C">> -> Filter(beforeOk, DigitSet \cup {","})
         [] p = <<"Q", "R">> ->
                IF Contains(buf, <<"1", "O", "K">>) THEN <<"1">> ELSE <<"0">>
         [] p = <<"Q", "N">> -> Filter(beforeOk, DigitSet)
         [] OTHER -> IF Contains(buf, OK) THEN OK ELSE buf

\* The elapsed times (ms since `start') at which the model observes a polling
\* loop: its first iteration, the ms around the end of the quiet window (for
\* the loops that have one) and the ms around the deadline.  Between two of
\* them the loop only repeats "nothing available, sleep 1 ms": no condition
\* of the loop changes there.
Stops(kind, t) ==
    LET quiet == IF kind = "OK" THEN {}
                 ELSE (QuietMs - Fine)..(QuietMs + PollMs + Fine)
    IN {x \in {0} \cup quiet \cup ((t - Fine)..(t + PollMs)) : x >= 0}

\* The elapsed time at which the loop is next observed when it sleeps at e.
NextStop(kind, e, t) ==
    LET later == {x \in Stops(kind, t) : x > e}
    IN IF later = {} THEN e + PollMs
       ELSE CHOOSE x \in later : \A y \in later : x <= y

elapsed == clock - start

\* The start of a sendCommand call: bytes that are already in the transport,
\* and replies the device still owes, belong to earlier calls from now on.
BeginSend(c, t) ==
    /\ pc' = "drain"
    /\ cmd' = c
    /\ timeoutMs' = t
    /\ clock' = 0
    /\ start' = 0
    /\ responseBuffer' = <<>>
    /\ outcome' = [threw |-> FALSE, str |-> <<>>]
    /\ lastByteAt' = 0
    /\ drained' = FALSE
    /\ rx' = [i \in 1..Len(rx) |-> [rx[i] EXCEPT !.tag = "stale"]]
    /\ inbox' = [i \in 1..Len(inbox) |-> [inbox[i] EXCEPT !.cur = FALSE]]
    /\ devCur' = FALSE

\* while (serial.available() > 0) serial.readBytes(buffer, min(256, available))
DrainRest(buf) == SubSeq(buf, Min(DrainChunk, Len(buf)) + 1, Len(buf))

\* The condition of the drain loop.
MoreToDrainNever(n) == FALSE

MoreToDrain(n) == n > 0

Drain ==
    /\ pc = "drain"
    /\ IF MoreToDrain(available)
       THEN /\ rx' = DrainRest(rx)
            /\ drained' = TRUE
            /\ pc' = pc
       ELSE /\ rx' = rx
            /\ drained' = drained
            /\ pc' = "write"
    /\ UNCHANGED <<connected, op, cmd, timeoutMs, clock, start, tock, hist, lastByteAt,
                   responseBuffer, outcome, wire, inbox, devPending, devCur, devMem,
                   lastKnownConfig, queryConfig, result>>

\* serial.writeBytes(cmd + "\r"): a closed port sends nothing to the device.
\* A device that is left with more than MaxInbox unanswered lines never
\* answers the oldest.
WriteTwice ==
    /\ pc = "write"
    /\ wire' = wire \o <<cmd \o <<CR>>, cmd \o <<CR>>>>
    /\ inbox' = IF ~connected THEN inbox
                ELSE LET kept == IF Len(inbox) < MaxInbox THEN inbox ELSE Tail(inbox)
                     IN Append(kept, [opcode |-> Opcode(cmd), cur |-> TRUE,
                                      store |-> Stored(cmd)])
    /\ clock' = 0
    /\ pc' = "settle"
    /\ UNCHANGED <<connected, op, cmd, timeoutMs, start, tock, drained, hist, lastByteAt, responseBuffer,
                   outcome, rx, devPending, devCur, devMem, lastKnownConfig,
                   queryConfig, result>>

LineCrLf(c) == c \o <<CR, LF>>

Line(c) == c \o <<CR>>

Write ==
    /\ pc = "write"
    /\ wire' = Append(wire, Line(cmd))
    /\ inbox' = IF ~connected THEN inbox
                ELSE LET kept == IF Len(inbox) < MaxInbox THEN inbox ELSE Tail(inbox)
                     IN Append(kept, [opcode |-> Opcode(cmd), cur |-> TRUE,
                                      store |-> Stored(cmd)])
    /\ clock' = 0
    /\ pc' = "settle"
    /\ UNCHANGED <<connected, op, cmd, timeoutMs, start, tock, drained, hist, lastByteAt, responseBuffer,
                   outcome, rx, devPending, devCur, devMem, lastKnownConfig,
                   queryConfig, result>>

\* sleep_for(10 ms), then the loop takes its start timestamp.
StartAtWrite(writeClock) == writeClock

StartAfter(writeClock) == writeClock + SettleMs

Settle ==
    /\ pc = "settle"
    /\ clock' = clock + SettleMs
    /\ start' = StartAfter(clock)
    /\ pc' = "loop"
    /\ UNCHANGED <<connected, op, cmd, timeoutMs, tock, drained, hist, lastByteAt, responseBuffer, outcome,
                   rx, wire, inbox, devPending, devCur, devMem, lastKnownConfig,
                   queryConfig, result>>

Returns(s) == /\ outcome' = [threw |-> FALSE, str |-> s]
              /\ pc' = "ret"

Throws(what) == /\ outcome' = [threw |-> TRUE, str |-> what]
                /\ pc' = "ret"

\* The timeout check at the top of every loop.
Expired(e, t) == e > t

\* std::this_thread::sleep_for(1 ms), repeated until the next observed instant.
Sleep == clock' = start + NextStop(Kind(cmd), elapsed, timeoutMs)

\* steady_clock: time passes while a call runs.  The clock's value is kept
\* only where the code reads it, in a polling loop that has not expired.
Tick ==
    /\ pc # "idle"
    /\ tock' = ~tock
    /\ clock' = IF pc \in {"loop", "tail"} /\ ~Expired(elapsed, timeoutMs)
                THEN clock + PollMs ELSE clock
    /\ UNCHANGED <<connected, pc, op, cmd, timeoutMs, start, hist, lastByteAt,
                   drained, responseBuffer, outcome, rx, wire, inbox, devPending,
                   devCur, devMem, lastKnownConfig, queryConfig, result>>

\* serial.readBytes(&ch, 1)
ReadByte == rx' = Tail(rx)

\* The V loop: complete when nothing is available, something was received and
\* more than QuietMs have passed since `start'.
QuietOver(e) == e > QuietMs

\* !responseBuffer.empty(): a quiet transport completes the framing only
\* after something was received.
ReceivedOrNot(buf) == TRUE

Received(buf) == buf # <<>>

LoopV ==
    /\ pc = "loop"
    /\ Kind(cmd) = "V"
    /\ IF Expired(elapsed, timeoutMs)
       THEN Throws(TimedOut(cmd)) /\ UNCHANGED <<rx, responseBuffer, clock, lastByteAt>>
       ELSE IF available > 0
       THEN /\ ReadByte
            /\ lastByteAt' = clock
            /\ responseBuffer' = Append(responseBuffer, Head(rx))
            /\ UNCHANGED <<pc, outcome, clock>>
       ELSE IF Received(responseBuffer) /\ QuietOver(elapsed)
       THEN Returns(Chars(responseBuffer)) /\ UNCHANGED <<rx, responseBuffer, clock, lastByteAt>>
       ELSE Sleep /\ UNCHANGED <<pc, outcome, rx, responseBuffer, lastByteAt>>
    /\ UNCHANGED <<connected, op, cmd, timeoutMs, start, tock, drained, hist, wire, inbox,
                   devPending, devCur, devMem, lastKnownConfig, queryConfig, result>>

\* The QG loop condition: fewer than two characters, or the first two are not
\* both hex digits.
QgIncompleteOneDigit(buf) == Len(buf) < 1 \/ ~IsXDigit(buf[1])

QgIncomplete(buf) ==
    Len(buf) < 2 \/ ~IsXDigit(buf[1]) \/ ~IsXDigit(buf[2])

LoopQG ==
    /\ pc = "loop"
    /\ Kind(cmd) = "QG"
    /\ IF ~QgIncomplete(Chars(responseBuffer))
       THEN Returns(Chars(responseBuffer)) /\ UNCHANGED <<rx, responseBuffer, clock, lastByteAt>>
       ELSE IF Expired(elapsed, timeoutMs)
       THEN Throws(TimedOut(cmd)) /\ UNCHANGED <<rx, responseBuffer, clock, lastByteAt>>
       ELSE IF available > 0
       THEN /\ ReadByte
            /\ lastByteAt' = clock
            /\ responseBuffer' = IF Head(rx).ch \in {CR, LF} THEN responseBuffer
                                 ELSE Append(responseBuffer, Head(rx))
            /\ pc' = "tail"
            /\ UNCHANGED <<outcome, clock>>
       ELSE /\ Sleep
            /\ pc' = "tail"
            /\ UNCHANGED <<outcome, rx, responseBuffer, lastByteAt>>
    /\ UNCHANGED <<connected, op, cmd, timeoutMs, start, tock, drained, hist, wire, inbox,
                   devPending, devCur, devMem, lastKnownConfig, queryConfig, result>>

\* The end of a QG loop iteration: "collected some data but no more is coming".
TailQG ==
    /\ pc = "tail"
    /\ IF Received(responseBuffer) /\ available = 0 /\ QuietOver(elapsed)
       THEN Returns(Chars(responseBuffer))
       ELSE pc' = "loop" /\ UNCHANGED outcome
    /\ UNCHANGED <<connected, op, cmd, timeoutMs, clock, start, tock, drained, hist, lastByteAt,
                   responseBuffer, rx, wire, inbox, devPending, devCur, devMem,
                   lastKnownConfig, queryConfig, result>>

\* The QM loop: a line feed ends the reply; so does a quiet transport once the
\* buffer starts with "QM," and holds at least 7 characters.
QmClean(buf) == Without(buf, {CR, LF})

QmPrefixQuiet(buf, e) ==
    /\ Find(buf, <<"Q", "M", ",">>) = 1
    /\ Len(buf) >= QmMinLen
    /\ QuietOver(e)

LoopQM ==
    /\ pc = "loop"
    /\ Kind(cmd) = "QM"
    /\ IF Expired(elapsed, timeoutMs)
       THEN Throws(TimedOut(cmd)) /\ UNCHANGED <<rx, responseBuffer, clock, lastByteAt>>
       ELSE IF available > 0
       THEN /\ ReadByte
            /\ lastByteAt' = clock
            /\ responseBuffer' = Append(responseBuffer, Head(rx))
            /\ IF Head(rx).ch = LF
               THEN Returns(QmClean(Chars(responseBuffer')))
               ELSE UNCHANGED <<pc, outcome>>
            /\ UNCHANGED clock
       ELSE IF QmPrefixQuiet(Chars(responseBuffer), elapsed)
       THEN Returns(QmClean(Chars(responseBuffer)))
            /\ UNCHANGED <<rx, responseBuffer, clock, lastByteAt>>
       ELSE Sleep /\ UNCHANGED <<pc, outcome, rx, responseBuffer, lastByteAt>>
    /\ UNCHANGED <<connected, op, cmd, timeoutMs, start, tock, drained, hist, wire, inbox,
                   devPending, devCur, devMem, lastKnownConfig, queryConfig, result>>

\* The loop of every other command: read until the buffer contains "OK".
FoundTwo(buf) == Len(buf) >= 2

FoundOK(buf) == Len(buf) >= 2 /\ Contains(buf, OK)

LoopOK ==
    /\ pc = "loop"
    /\ Kind(cmd) = "OK"
    /\ IF Expired(elapsed, timeoutMs)
       THEN Throws(TimedOut(cmd)) /\ UNCHANGED <<rx, responseBuffer, clock, lastByteAt>>
       ELSE IF available > 0
       THEN /\ ReadByte
            /\ lastByteAt' = clock
            /\ responseBuffer' = Append(responseBuffer, Head(rx))
            /\ IF FoundOK(Chars(responseBuffer'))
               THEN Returns(PostProcess(cmd, Chars(responseBuffer')))
               ELSE UNCHANGED <<pc, outcome>>
            /\ UNCHANGED clock
       ELSE Sleep /\ UNCHANGED <<pc, outcome, rx, responseBuffer, lastByteAt>>
    /\ UNCHANGED <<connected, op, cmd, timeoutMs, start, tock, drained, hist, wire, inbox,
                   devPending, devCur, devMem, lastKnownConfig, queryConfig, result>>

----------------------------------------------------------------------------
(* The facade *)

NoResult == [status |-> "none", val |-> <<>>]

Returned(v) == [status |-> "returned", val |-> v]

Threw(what) == [status |-> "threw", val |-> what]

\* std::stoi: an optional minus sign, then the longest run of digits; no digit
\* is std::invalid_argument, a value outside int is std::out_of_range.
RECURSIVE DigitRun(_)
DigitRun(s) == IF s = <<>> \/ ~IsDigit(Head(s)) THEN <<>>
               ELSE <<Head(s)>> \o DigitRun(Tail(s))

RECURSIVE NatVal(_)
NatVal(ds) ==
    IF ds = <<>> THEN 0
    ELSE 10 * NatVal(SubSeq(ds, 1, Len(ds) - 1))
         + (CHOOSE d \in 0..9 : Digits[d + 1] = ds[Len(ds)])

stoi(s) ==
    LET neg == s # <<>> /\ Head(s) = "-"
        run == DigitRun(IF neg THEN Tail(s) ELSE s)
        val == IF neg THEN -NatVal(run) ELSE NatVal(run)
    IN [ok |-> run # <<>> /\ val >= IntMin /\ val <= IntMax, val |-> val]

\* checkOk(r): throws unless r is exactly "OK".
checkOk(r) ==
    IF r # OK THEN Threw(<<"U", "n", "e", "x", "p", "e", "c", "t", "e", "d", " ", "r", "e", "s", "p", "o", "n", "s", "e", ":", " ">> \o r)
    ELSE Returned(<<>>)

\* ofClamp / clampValue
clampValue(value, min, max) ==
    IF value < min THEN min ELSE IF value > max THEN max ELSE value

\* An operation begins its (next) exchange.
Start(o, c, t) ==
    /\ op' = o
    /\ wire' = <<>>
    /\ result' = NoResult
    /\ BeginSend(c, t)
    /\ UNCHANGED <<connected, tock, devPending, devMem>>

\* An operation throws before it sends anything.
Reject(o, what) ==
    /\ op' = o
    /\ wire' = <<>>
    /\ result' = Threw(what)
    /\ UNCHANGED <<connected, pc, cmd, timeoutMs, clock, start, tock, drained, hist, lastByteAt,
                   responseBuffer, outcome, rx, inbox, devPending, devCur, devMem,
                   lastKnownConfig, queryConfig>>

\* The operation in progress ends with result r; sendCommand's locals are gone.
Finish(r) ==
    /\ pc' = "idle"
    /\ result' = r
    /\ cmd' = <<>>
    /\ timeoutMs' = 0
    /\ clock' = 0
    /\ start' = 0
    /\ responseBuffer' = <<>>
    /\ lastByteAt' = 0
    /\ drained' = FALSE
    /\ UNCHANGED <<op, tock, outcome, wire, inbox, devPending, devCur, devMem>>

\* What a caller of sendCommand gets: the returned string or the exception.
Sent == IF outcome.threw THEN Threw(outcome.str) ELSE Returned(outcome.str)

\* auto resp = sendCommand(cmd); checkOk(resp);
SentAndChecked == IF outcome.threw THEN Threw(outcome.str) ELSE checkOk(outcome.str)

\* try { ... } catch (const std::exception &) { return dflt; }
TryRethrows(r, dflt) == r

Try(r, dflt) == IF r.status = "threw" THEN Returned(dflt) ELSE r

\* sendCommand(cmd, numLines, timeoutMs), called directly.
RawTimeouts == {0, QuietMs + QuietMs \div 2}

BriefTimeouts == {0, PollMs + PollMs}

LineCounts == {1, 2}

\* numLines is a parameter of sendCommand that its body never reads.
CallRaw(cmds, lines, timeouts) ==
    /\ pc = "idle"
    /\ \E c \in cmds, numLines \in lines, t \in timeouts :
          Start([name |-> "sendCommand", args |-> <<c, numLines, t>>], c, t)
    /\ UNCHANGED <<lastKnownConfig, queryConfig, hist>>

SendV == CallRaw({<<"V">>}, {1}, RawTimeouts)

SendQG == CallRaw({<<"Q", "G">>}, {1}, RawTimeouts)

SendQM == CallRaw({<<"Q", "M">>}, {1}, RawTimeouts)

SendCS == CallRaw({<<"C", "S">>}, {1}, RawTimeouts)

SendBrief == CallRaw({<<"C", "S">>}, {1}, BriefTimeouts)

SendLines == CallRaw({<<"Q", "L">>}, LineCounts, RawTimeouts)

RetSendCommand ==
    /\ pc = "ret"
    /\ op.name = "sendCommand"
    /\ Finish(Sent)
    /\ UNCHANGED <<connected, rx, lastKnownConfig, queryConfig, hist>>

\* setUserOptions(okResponses, paramCheck, fifoLedIndicator): three exchanges,
\* "CU,1,<b>", "CU,2,<b>" and "CU,3,<b>"; the responses are not examined.
CuLine(n, b) == <<"C", "U", ",">> \o NatStr(n) \o <<",">> \o (IF b THEN <<"1">> ELSE <<"0">>)

SetUserOptions ==
    /\ pc = "idle"
    /\ \E okResponses, paramCheck, fifoLedIndicator \in BOOLEAN :
          Start([name |-> "setUserOptions",
                 args |-> <<okResponses, paramCheck, fifoLedIndicator>>],
                CuLine(1, okResponses), DefaultTimeoutMs)
    /\ UNCHANGED <<lastKnownConfig, queryConfig, hist>>

\* The end of one of its exchanges: an exception leaves the function, else the
\* next sendCommand call begins, or the function returns after the third.
RetSetUserOptions ==
    /\ pc = "ret"
    /\ op.name = "setUserOptions"
    /\ IF outcome.threw
       THEN Finish(Threw(outcome.str)) /\ UNCHANGED rx
       ELSE IF Len(wire) < Len(op.args)
       THEN /\ BeginSend(CuLine(Len(wire) + 1, op.args[Len(wire) + 1]), DefaultTimeoutMs)
            /\ UNCHANGED <<op, wire, result, tock, devPending, devMem>>
       ELSE Finish(Returned(<<>>)) /\ UNCHANGED rx
    /\ UNCHANGED <<connected, lastKnownConfig, queryConfig, hist>>

\* setup(portName, baud): serial.setup opens the port or fails.
Setup ==
    /\ pc = "idle"
    /\ \E opened \in BOOLEAN :
          /\ connected' = opened
          /\ result' = Returned(<<opened>>)
    /\ op' = [name |-> "setup", args |-> <<>>]
    /\ rx' = <<>>
    /\ wire' = <<>>
    /\ UNCHANGED <<pc, cmd, timeoutMs, clock, start, tock, drained, hist, lastByteAt, responseBuffer,
                   outcome, inbox, devPending, devCur, devMem, lastKnownConfig,
                   queryConfig>>

\* close(): closes the port if it is initialized; unread bytes are gone.
Close ==
    /\ pc = "idle"
    /\ op' = [name |-> "close", args |-> <<>>]
    /\ connected' = FALSE
    /\ rx' = <<>>
    /\ wire' = <<>>
    /\ result' = Returned(<<>>)
    /\ UNCHANGED <<pc, cmd, timeoutMs, clock, start, tock, drained, hist, lastByteAt, responseBuffer,
                   outcome, inbox, devPending, devCur, devMem, lastKnownConfig,
                   queryConfig>>

----------------------------------------------------------------------------
(* Motor configuration *)

ModeRange == MOTOR_DISABLE..MOTOR_STEP_DIV1

MotorModes == {MOTOR_STEP_DIV1, MOTOR_STEP_DIV1 + 1}

Unknown == -1

\* ack: the modes of the last acknowledged enableMotors; idle: the motors a QM
\* reply has reported as not moving since; count: the node count the device
\* holds according to the calls it acknowledged, Unknown after a call failed;
\* replaced: the driver instance was replaced after a slot had been narrowed.
NoHistory == [ack |-> <<>>, idle |-> <<FALSE, FALSE>>, count |-> Unknown,
              replaced |-> FALSE]

\* enableMotors(m1Mode, m2Mode): the shared static is assigned before the
\* command is sent.
EnableMotors ==
    /\ pc = "idle"
    /\ \E m1Mode \in MotorModes, m2Mode \in MotorModes :
          /\ lastKnownConfig' = <<m1Mode, m2Mode>>
          /\ Start([name |-> "enableMotors", args |-> <<m1Mode, m2Mode>>],
                   <<"E", "M", ",">> \o toStr(m1Mode) \o <<",">> \o toStr(m2Mode),
                   DefaultTimeoutMs)
    /\ hist' = [NoHistory EXCEPT !.count = hist.count]
    /\ UNCHANGED queryConfig

RetEnableMotors ==
    /\ pc = "ret"
    /\ op.name = "enableMotors"
    /\ Finish(SentAndChecked)
    /\ hist' = IF SentAndChecked.status = "returned"
                  /\ \A i \in 1..2 : op.args[i] \in ModeRange
               THEN [hist EXCEPT !.ack = op.args, !.idle = <<FALSE, FALSE>>]
               ELSE hist
    /\ UNCHANGED <<connected, rx, lastKnownConfig, queryConfig>>

\* The slots of a QM reply that are not "1" (parts[2], parts[3]).
NotMoving(parts) ==
    [i \in 1..2 |-> Len(parts) >= 4 /\ parts[i + 2] # <<"1">>]

\* getMotorConfig(): its own function-local static, narrowed by the QM reply.
narrowOrRestore(config, parts) ==
    [i \in 1..2 |-> IF NotMoving(parts)[i] THEN MOTOR_DISABLE ELSE MOTOR_STEP_DIV16]

narrow(config, parts) ==
    [i \in 1..2 |-> IF NotMoving(parts)[i] THEN MOTOR_DISABLE ELSE config[i]]

GetMotorConfig ==
    /\ pc = "idle"
    /\ Start([name |-> "getMotorConfig", args |-> <<>>], <<"Q", "M">>, QmTimeoutMs)
    /\ UNCHANGED <<lastKnownConfig, queryConfig, hist>>

RetGetMotorConfig ==
    /\ pc = "ret"
    /\ op.name = "getMotorConfig"
    /\ LET parts == split(outcome.str, ",")
       IN IF outcome.threw
          THEN /\ Finish(Returned(<<MOTOR_STEP_DIV16, MOTOR_STEP_DIV16>>))
               /\ UNCHANGED <<queryConfig, hist>>
          ELSE /\ queryConfig' = narrow(queryConfig, parts)
               /\ Finish(Returned(queryConfig'))
               /\ hist' = [hist EXCEPT !.idle =
                             [i \in 1..2 |-> hist.idle[i] \/ NotMoving(parts)[i]]]
    /\ UNCHANGED <<connected, rx, lastKnownConfig>>

\* The driver instance is destroyed and another one constructed: the
\* destructor closes the port, the new instance has no port, and the statics
\* of getMotorConfig and getLastKnownMotorConfig belong to the process.
ReplaceResetsCache ==
    /\ pc = "idle"
    /\ op' = [name |-> "construct", args |-> <<>>]
    /\ connected' = FALSE
    /\ rx' = <<>>
    /\ wire' = <<>>
    /\ result' = NoResult
    /\ queryConfig' = <<MOTOR_STEP_DIV16, MOTOR_STEP_DIV16>>
    /\ hist' = [hist EXCEPT !.replaced = hist.idle[1] \/ hist.idle[2]]
    /\ UNCHANGED <<pc, cmd, timeoutMs, clock, start, tock, drained, lastByteAt, responseBuffer,
                   outcome, inbox, devPending, devCur, devMem, lastKnownConfig>>

Replace ==
    /\ pc = "idle"
    /\ op' = [name |-> "construct", args |-> <<>>]
    /\ connected' = FALSE
    /\ rx' = <<>>
    /\ wire' = <<>>
    /\ result' = NoResult
    /\ hist' = [hist EXCEPT !.replaced = hist.idle[1] \/ hist.idle[2]]
    /\ UNCHANGED <<pc, cmd, timeoutMs, clock, start, tock, drained, lastByteAt, responseBuffer,
                   outcome, inbox, devPending, devCur, devMem, lastKnownConfig,
                   queryConfig>>

----------------------------------------------------------------------------
(* Reboot and bootloader entry *)

Reboot ==
    /\ pc = "idle"
    /\ Start([name |-> "reboot", args |-> <<>>], <<"R", "B">>, DefaultTimeoutMs)
    /\ UNCHANGED <<lastKnownConfig, queryConfig, hist>>

EnterBootloader ==
    /\ pc = "idle"
    /\ Start([name |-> "enterBootloader", args |-> <<>>], <<"B", "L">>, DefaultTimeoutMs)
    /\ UNCHANGED <<lastKnownConfig, queryConfig, hist>>

\* sendCommand(...); close();  -- close() is reached only if sendCommand
\* returned.
SendThenClose(name) ==
    /\ pc = "ret"
    /\ op.name = name
    /\ IF outcome.threw
       THEN Finish(Threw(outcome.str)) /\ UNCHANGED <<connected, rx>>
       ELSE Finish(Returned(<<>>)) /\ connected' = FALSE /\ rx' = <<>>
    /\ UNCHANGED <<lastKnownConfig, queryConfig, hist>>

RetReboot == SendThenClose("reboot")

RetEnterBootloader == SendThenClose("enterBootloader")

----------------------------------------------------------------------------
(* Operations with a documented argument range *)

LayerMax == 127

PowerMax == 1023

FreqMin == 2

FreqMax == 25000

AddressMax == 4095

ByteMax == 255

LayerArgs == {-1, LayerMax, LayerMax + 1}

PowerArgs == {0, PowerMax + 1}

NicknameArgs == {<<"a">>, [i \in 1..(NickMax + 1) |-> "n"]}

FreqArgs == {FreqMin - 1, FreqMin, FreqMax, FreqMax + 1}

PosArgs == {0, -5}

AddressArgs == {-1, 0, AddressMax + 1}

ByteArgs == {ByteMax, ByteMax + 1}

BoolStr(b) == IF b THEN <<"1">> ELSE <<"0">>

\* return resp == "OK"; inside try { } catch { return false; }
SentIsOk == Try(IF outcome.threw THEN Threw(outcome.str)
                ELSE Returned(<<outcome.str = OK>>), <<FALSE>>)

\* setLayer(layer): an out-of-range layer is clamped and sent.
SetLayer ==
    /\ pc = "idle"
    /\ \E layer \in LayerArgs :
          Start([name |-> "setLayer", args |-> <<layer>>],
                <<"S", "L", ",">> \o toStr(clampValue(layer, 0, LayerMax)), DefaultTimeoutMs)
    /\ UNCHANGED <<lastKnownConfig, queryConfig, hist>>

\* setEngraver(enable, power, useMotionQueue): an out-of-range power is
\* clamped and sent.
SetEngraver ==
    /\ pc = "idle"
    /\ \E enable \in BOOLEAN, power \in PowerArgs, useMotionQueue \in BOOLEAN :
          Start([name |-> "setEngraver", args |-> <<enable, power, useMotionQueue>>],
                <<"S", "E", ",">> \o BoolStr(enable) \o <<",">>
                    \o toStr(clampValue(power, 0, PowerMax)) \o <<",">>
                    \o BoolStr(useMotionQueue),
                DefaultTimeoutMs)
    /\ UNCHANGED <<lastKnownConfig, queryConfig, hist>>

\* setNickname(nickname): a longer nickname is cut to 16 characters and sent.
SetNicknameFrom(nicknames) ==
    /\ pc = "idle"
    /\ \E nickname \in nicknames :
          Start([name |-> "setNickname", args |-> <<nickname>>],
                <<"S", "T", ",">> \o Prefix(nickname, NickMax), DefaultTimeoutMs)
    /\ UNCHANGED <<lastKnownConfig, queryConfig, hist>>

SetNickname == SetNicknameFrom(NicknameArgs)

\* Nicknames within the 16 characters: empty, plain, and holding "OK".
ShortNicknames == {<<>>, <<"e">>, <<"O", "K", "a">>}

SetShortNickname == SetNicknameFrom(ShortNicknames)

RetSetter ==
    /\ pc = "ret"
    /\ op.name \in {"setLayer", "setEngraver", "setNickname"}
    /\ Finish(SentIsOk)
    /\ UNCHANGED <<connected, rx, lastKnownConfig, queryConfig, hist>>

FrequencyOutOfRange == <<"F", "r", "e", "q", "u", "e", "n", "c", "y", " ", "o", "u", "t", " ", "o", "f", " ", "r", "a", "n", "g", "e">>

\* moveAbsolute(stepFrequency, pos1, pos2)
MoveAbsolute ==
    /\ pc = "idle"
    /\ \E stepFrequency \in FreqArgs, pos1 \in PosArgs, pos2 \in PosArgs :
          LET o == [name |-> "moveAbsolute", args |-> <<stepFrequency, pos1, pos2>>]
          IN IF stepFrequency < FreqMin \/ stepFrequency > FreqMax
             THEN Reject(o, FrequencyOutOfRange)
             ELSE /\ Start(o, <<"H", "M", ",">> \o toStr(stepFrequency) \o <<",">>
                                  \o toStr(pos1) \o <<",">> \o toStr(pos2),
                           DefaultTimeoutMs)
                  /\ UNCHANGED <<lastKnownConfig, queryConfig, hist>>

AddressOutOfRange == <<"M", "e", "m", "o", "r", "y", " ", "a", "d", "d", "r", "e", "s", "s", " ", "o", "u", "t", " ", "o", "f", " ", "r", "a", "n", "g", "e">>

ByteOutOfRange == <<"B", "y", "t", "e", " ", "v", "a", "l", "u", "e", " ", "m", "u", "s", "t", " ", "b", "e", " ", "0", "-", "2", "5", "5">>

\* writeMemory(address, value)
WriteMemory ==
    /\ pc = "idle"
    /\ \E address \in AddressArgs, value \in ByteArgs :
          LET o == [name |-> "writeMemory", args |-> <<address, value>>]
          IN IF address < 0 \/ address > AddressMax
             THEN Reject(o, AddressOutOfRange)
             ELSE IF value < 0 \/ value > ByteMax
             THEN Reject(o, ByteOutOfRange)
             ELSE /\ Start(o, <<"M", "W", ",">> \o toStr(address) \o <<",">> \o toStr(value),
                           DefaultTimeoutMs)
                  /\ UNCHANGED <<lastKnownConfig, queryConfig, hist>>

ChannelMax == 15

ChannelArgs == {-1, 0, ChannelMax, ChannelMax + 1}

ChannelAboveRange(channel) == channel > ChannelMax

ChannelOutOfRange(channel) == channel < 0 \/ channel > ChannelMax

\* configureAnalogInput(channel, enable)
ConfigureAnalogInput ==
    /\ pc = "idle"
    /\ \E channel \in ChannelArgs, enable \in BOOLEAN :
          LET o == [name |-> "configureAnalogInput", args |-> <<channel, enable>>]
          IN IF ChannelOutOfRange(channel)
             THEN Reject(o, <<"A", "n", "a", "l", "o", "g", " ", "c", "h", "a", "n", "n", "e", "l", " ", "o", "u", "t", " ", "o", "f", " ", "r", "a", "n", "g", "e">>)
             ELSE /\ Start(o, <<"A", "C", ",">> \o toStr(channel) \o <<",">> \o BoolStr(enable),
                           DefaultTimeoutMs)
                  /\ UNCHANGED <<lastKnownConfig, queryConfig, hist>>

RetChecked ==
    /\ pc = "ret"
    /\ op.name \in {"moveAbsolute", "writeMemory", "configureAnalogInput"}
    /\ Finish(SentAndChecked)
    /\ UNCHANGED <<connected, rx, lastKnownConfig, queryConfig, hist>>

\* readMemory(address)
ReadMemory ==
    /\ pc = "idle"
    /\ \E address \in AddressArgs :
          LET o == [name |-> "readMemory", args |-> <<address>>]
          IN IF address < 0 \/ address > AddressMax
             THEN Reject(o, AddressOutOfRange)
             ELSE /\ Start(o, <<"M", "R", ",">> \o toStr(address), DefaultTimeoutMs)
                  /\ UNCHANGED <<lastKnownConfig, queryConfig, hist>>

\* parts[0] != "MR" throws; parts[1] is read without a size check, so a reply
\* "MR" alone reads past the vector: any byte, or a crash.
ReadMemoryResults(resp) ==
    LET parts == split(resp, ",")
    IN IF parts # <<>> /\ parts[1] # <<"M", "R">>
       THEN {Threw(<<"B", "a", "d", " ", "M", "R", " ", "r", "e", "s", "p", "o", "n", "s", "e">>)}
       ELSE IF Len(parts) >= 2
       THEN {IF stoi(parts[2]).ok THEN Returned(<<stoi(parts[2]).val % (ByteMax + 1)>>)
             ELSE Threw(<<"s", "t", "o", "i">>)}
       ELSE {Returned(<<0>>), Returned(<<ByteMax>>), Threw(<<"c", "r", "a", "s", "h">>)}

RetReadMemory ==
    /\ pc = "ret"
    /\ op.name = "readMemory"
    /\ IF outcome.threw THEN Finish(Threw(outcome.str))
       ELSE \E r \in ReadMemoryResults(outcome.str) : Finish(r)
    /\ UNCHANGED <<connected, rx, lastKnownConfig, queryConfig, hist>>

----------------------------------------------------------------------------
(* Queries *)

\* resp.substr(0, resp.find("OK")), or resp when there is no "OK"
BeforeOk(resp) ==
    IF Contains(resp, OK) THEN SubSeq(resp, 1, Find(resp, OK) - 1) ELSE resp

StoiFailed == <<"s", "t", "o", "i">>

\* The operations that catch every exception and return a default.
QueryOps == {"getStepPositions", "isButtonPressed", "isServoPowered", "isPenDown",
             "getLayer", "getNodeCount", "getNickname", "getCurrentInfo",
             "emergencyStop", "getMotorConfig"}

\* Doubles are kept as exact fractions <<numerator, denominator>>.
Ratio(n, d) == <<n, d>>

\* The value each handler returns.
Default(name) ==
    CASE name = "getStepPositions" -> <<0, 0>>
      [] name = "isButtonPressed" -> <<FALSE>>
      [] name = "isServoPowered" -> <<FALSE>>
      [] name = "isPenDown" -> <<FALSE>>
      [] name = "getLayer" -> <<0>>
      [] name = "getNodeCount" -> <<0>>
      [] name = "getNickname" -> <<DefaultNickname>>
      [] name = "getCurrentInfo" -> <<Ratio(0, 1), Ratio(0, 1)>>
      [] name = "emergencyStop" -> <<FALSE, <<0, 0>>, <<0, 0>>>>
      [] name = "getMotorConfig" -> <<MOTOR_STEP_DIV16, MOTOR_STEP_DIV16>>

AllStoi(items) == \A i \in 1..Len(items) : stoi(items[i]).ok

emergencyStop(resp) ==
    LET vals == split(Filter(BeforeOk(resp), DigitSet \cup {",", "-"}), ",")
    IN IF Len(vals) < 5 THEN Threw(<<"I", "n", "v", "a", "l", "i", "d", " ", "e", "m", "e", "r", "g", "e", "n", "c", "y", " ", "s", "t", "o", "p", " ", "r", "e", "s", "p", "o", "n", "s", "e">>)
       ELSE IF ~AllStoi(SubSeq(vals, 2, 5)) THEN Threw(StoiFailed)
       ELSE Returned(<<vals[1] = <<"1">>,
                       <<stoi(vals[2]).val, stoi(vals[3]).val>>,
                       <<stoi(vals[4]).val, stoi(vals[5]).val>>>>)

isButtonPressed(resp) == Returned(<<Contains(resp, <<"1">>)>>)

\* maxCurrent = 3.3 * a / 1023 / 1.76; powerVoltage = 3.3 * b / 1023 / scale + 0.3
getCurrentInfo(resp, oldBoard) ==
    LET parts == split(Filter(BeforeOk(resp), DigitSet \cup {","}), ",")
    IN IF Len(parts) < 2 THEN Threw(<<"I", "n", "v", "a", "l", "i", "d", " ", "c", "u", "r", "r", "e", "n", "t", " ", "i", "n", "f", "o", " ", "r", "e", "s", "p", "o", "n", "s", "e">>)
       ELSE IF ~AllStoi(SubSeq(parts, 1, 2)) THEN Threw(StoiFailed)
       ELSE LET a == stoi(parts[1]).val
                b == stoi(parts[2]).val
            IN Returned(<<Ratio(15 * a, 8184),
                          Ratio((IF oldBoard THEN 3630 ELSE 3036) * b + 30690,
                                102300)>>)

getLayer(resp) ==
    LET layerValue == Filter(BeforeOk(resp), DigitSet)
    IN IF layerValue = <<>> THEN Returned(<<0>>)
       ELSE IF ~stoi(layerValue).ok THEN Threw(StoiFailed)
       ELSE Returned(<<stoi(layerValue).val>>)

isPenDown(resp) == Returned(<<Contains(resp, <<"0">>) /\ Contains(resp, OK)>>)

isServoPowered(resp) == Returned(<<Contains(resp, <<"1">>)>>)

getStepPositionsUnsigned(resp) ==
    LET values == split(Filter(BeforeOk(resp), DigitSet \cup {","}), ",")
    IN IF Len(values) >= 2
       THEN IF ~AllStoi(SubSeq(values, 1, 2)) THEN Threw(StoiFailed)
            ELSE Returned(<<stoi(values[1]).val, stoi(values[2]).val>>)
       ELSE Returned(<<0, 0>>)

getStepPositions(resp) ==
    LET values == split(Filter(BeforeOk(resp), DigitSet \cup {",", "-"}), ",")
    IN IF Len(values) >= 2
       THEN IF ~AllStoi(SubSeq(values, 1, 2)) THEN Threw(StoiFailed)
            ELSE Returned(<<stoi(values[1]).val, stoi(values[2]).val>>)
       ELSE Returned(<<0, 0>>)

getNickname(resp) ==
    LET nickname == Without(BeforeOk(resp), {CR, LF})
    IN IF nickname = <<>> THEN Returned(<<DefaultNickname>>)
       ELSE Returned(<<nickname>>)

\* static_cast<uint32_t>(std::stoul(cleaned)): the replies of the model carry
\* at most nine digits, which neither stoul nor the cast changes.
getNodeCountAsByte(resp) ==
    LET cleaned == Filter(BeforeOk(resp), DigitSet)
    IN IF cleaned = <<>> THEN Returned(<<0>>)
       ELSE Returned(<<NatVal(cleaned) % (ByteMax + 1)>>)

getNodeCount(resp) ==
    LET cleaned == Filter(BeforeOk(resp), DigitSet)
    IN IF cleaned = <<>> THEN Returned(<<0>>)
       ELSE Returned(<<NatVal(cleaned)>>)

\* What the body of a query's try block makes of sendCommand's response.
DecodedWithCache(o, resp) ==
    CASE o.name = "getStepPositions" -> getStepPositions(resp)
      [] o.name = "isButtonPressed" -> isButtonPressed(resp)
      [] o.name = "isServoPowered" ->
            Returned(<<queryConfig = <<MOTOR_STEP_DIV16, MOTOR_STEP_DIV16>>>>)
      [] o.name = "isPenDown" -> isPenDown(resp)
      [] o.name = "getLayer" -> getLayer(resp)
      [] o.name = "getNodeCount" -> getNodeCount(resp)
      [] o.name = "getNickname" -> getNickname(resp)
      [] o.name = "getCurrentInfo" -> getCurrentInfo(resp, o.args[1])
      [] o.name = "emergencyStop" -> emergencyStop(resp)

Decoded(o, resp) ==
    CASE o.name = "getStepPositions" -> getStepPositions(resp)
      [] o.name = "isButtonPressed" -> isButtonPressed(resp)
      [] o.name = "isServoPowered" -> isServoPowered(resp)
      [] o.name = "isPenDown" -> isPenDown(resp)
      [] o.name = "getLayer" -> getLayer(resp)
      [] o.name = "getNodeCount" -> getNodeCount(resp)
      [] o.name = "getNickname" -> getNickname(resp)
      [] o.name = "getCurrentInfo" -> getCurrentInfo(resp, o.args[1])
      [] o.name = "emergencyStop" -> emergencyStop(resp)

CallQuery(name, args, c) ==
    /\ pc = "idle"
    /\ Start([name |-> name, args |-> args], c, DefaultTimeoutMs)
    /\ UNCHANGED <<lastKnownConfig, queryConfig, hist>>

EmergencyStop ==
    \E disableMotors \in BOOLEAN :
        CallQuery("emergencyStop", <<disableMotors>>,
                  IF disableMotors THEN <<"E", "S", ",", "1">> ELSE <<"E", "S">>)

IsButtonPressed == CallQuery("isButtonPressed", <<>>, <<"Q", "B">>)

GetCurrentInfo ==
    \E oldBoard \in BOOLEAN : CallQuery("getCurrentInfo", <<oldBoard>>, <<"Q", "C">>)

GetLayer == CallQuery("getLayer", <<>>, <<"Q", "L">>)

IsPenDown == CallQuery("isPenDown", <<>>, <<"Q", "P">>)

IsServoPowered == CallQuery("isServoPowered", <<>>, <<"Q", "R">>)

GetStepPositions == CallQuery("getStepPositions", <<>>, <<"Q", "S">>)

GetNickname == CallQuery("getNickname", <<>>, <<"Q", "T">>)

GetNodeCount == CallQuery("getNodeCount", <<>>, <<"Q", "N">>)

\* try { return <decoded>; } catch (const std::exception &) { return <default>; }
RetQuery ==
    /\ pc = "ret"
    /\ op.name \in QueryOps \ {"getMotorConfig"}
    /\ Finish(Try(IF outcome.threw THEN Threw(outcome.str)
                  ELSE Decoded(op, outcome.str), Default(op.name)))
    /\ UNCHANGED <<connected, rx, lastKnownConfig, queryConfig, hist>>

\* getFirmwareVersion(): no handler.
GetFirmwareVersion ==
    /\ pc = "idle"
    /\ Start([name |-> "getFirmwareVersion", args |-> <<>>], <<"V">>, DefaultTimeoutMs)
    /\ UNCHANGED <<lastKnownConfig, queryConfig, hist>>

RetGetFirmwareVersionCaught ==
    /\ pc = "ret"
    /\ op.name = "getFirmwareVersion"
    /\ Finish(Try(Sent, <<>>))
    /\ UNCHANGED <<connected, rx, lastKnownConfig, queryConfig, hist>>

RetGetFirmwareVersion ==
    /\ pc = "ret"
    /\ op.name = "getFirmwareVersion"
    /\ Finish(Sent)
    /\ UNCHANGED <<connected, rx, lastKnownConfig, queryConfig, hist>>

----------------------------------------------------------------------------
(* The node counter *)

\* How far the device's node count moves from a value it was set to.
NodeSpan == 1

\* A count that grows by a digit when incremented, and one of ten digits.
NodeArgs == {9, NodeCap - 5}

\* The node counts the device takes on.
NodeCounts == {v + d : v \in NodeArgs, d \in (-NodeSpan)..NodeSpan}

\* The device of the node counter: DeviceStore, with the count kept within
\* NodeCounts.
DeviceCount ==
    /\ inbox # <<>>
    /\ Apply(devMem, Head(inbox).store).node \in NodeCounts \cup {devMem.node}
    /\ DeviceStore

\* The accumulated bytes hold the device's acknowledgement of this command.
OwnAck == Contains(Chars(SelectSeq(responseBuffer, LAMBDA b : b.tag = "own")), OK)

\* setNodeCount(value)
SetNodeCount ==
    /\ pc = "idle"
    /\ \E value \in NodeArgs :
          Start([name |-> "setNodeCount", args |-> <<value>>],
                <<"S", "N", ",">> \o toStr(value), DefaultTimeoutMs)
    /\ UNCHANGED <<lastKnownConfig, queryConfig, hist>>

RetSetNodeCount ==
    /\ pc = "ret"
    /\ op.name = "setNodeCount"
    /\ Finish(SentIsOk)
    /\ hist' = [hist EXCEPT !.count =
                   IF SentIsOk = Returned(<<TRUE>>) /\ OwnAck THEN op.args[1]
                   ELSE Unknown]
    /\ UNCHANGED <<connected, rx, lastKnownConfig, queryConfig>>

\* incrementNodeCount(): checkOk(sendCommand("NI")); decrementNodeCount():
\* checkOk(sendCommand("ND")).
StepNodeCount(name, c) ==
    /\ pc = "idle"
    /\ Start([name |-> name, args |-> <<>>], c, DefaultTimeoutMs)
    /\ UNCHANGED <<lastKnownConfig, queryConfig, hist>>

IncrementNodeCount == StepNodeCount("incrementNodeCount", <<"N", "I">>)

DecrementNodeCount == StepNodeCount("decrementNodeCount", <<"N", "D">>)

RetStepNodeCount ==
    /\ pc = "ret"
    /\ op.name \in {"incrementNodeCount", "decrementNodeCount"}
    /\ Finish(SentAndChecked)
    /\ hist' = [hist EXCEPT !.count =
                   IF SentAndChecked.status = "returned" /\ OwnAck /\ hist.count # Unknown
                   THEN IF op.name = "incrementNodeCount" THEN hist.count + 1
                        ELSE hist.count - 1
                   ELSE Unknown]
    /\ UNCHANGED <<connected, rx, lastKnownConfig, queryConfig>>

----------------------------------------------------------------------------
(* Queries whose reply echoes the opcode *)

PinMax == 7

PortLetters == {"A", "B", "C", "D", "E"}

PortArgs == {"B", "F"}

PinArgs == {PinMax, PinMax + 1}

\* What a read past the end of a vector or string may give: some value, or a
\* crash.
Crash == Threw(<<"c", "r", "a", "s", "h">>)

\* getDigitalInputs(): resp[0] must be 'I'; parts[1..5] are read without a
\* size check.
GetDigitalInputs ==
    /\ pc = "idle"
    /\ Start([name |-> "getDigitalInputs", args |-> <<>>], <<"I">>, DefaultTimeoutMs)
    /\ UNCHANGED <<lastKnownConfig, queryConfig, hist>>

getDigitalInputsResults(resp) ==
    LET parts == split(resp, ",")
    IN IF resp = <<>> \/ resp[1] # "I" THEN {Threw(<<"B", "a", "d", " ", "i", "n", "p", "u", "t", " ", "r", "e", "s", "p", "o", "n", "s", "e">>)}
       ELSE IF Len(parts) < 6 THEN {Crash, Threw(StoiFailed), Returned(<<0, 0, 0, 0, 0>>)}
       ELSE IF ~AllStoi(SubSeq(parts, 2, 6)) THEN {Threw(StoiFailed)}
       ELSE {Returned([i \in 1..5 |-> stoi(parts[i + 1]).val])}

\* getPin(port, pin): assertPort, then the pin range, then "PI,<port>,<pin>".
GetPin ==
    /\ pc = "idle"
    /\ \E port \in PortArgs, pin \in PinArgs :
          LET o == [name |-> "getPin", args |-> <<port, pin>>]
          IN IF port \notin PortLetters
             THEN Reject(o, <<"P", "o", "r", "t", " ", "l", "e", "t", "t", "e", "r", " ", "m", "u", "s", "t", " ", "b", "e", " ", "A", "-", "E">>)
             ELSE IF pin < 0 \/ pin > PinMax
             THEN Reject(o, <<"P", "i", "n", " ", "i", "n", "d", "e", "x", " ", "o", "u", "t", " ", "o", "f", " ", "r", "a", "n", "g", "e">>)
             ELSE /\ Start(o, <<"P", "I", ",", port, ",">> \o toStr(pin), DefaultTimeoutMs)
                  /\ UNCHANGED <<lastKnownConfig, queryConfig, hist>>

getPinResults(resp) ==
    LET parts == split(resp, ",")
    IN IF parts = <<>> THEN {Crash, Threw(<<"B", "a", "d", " ", "P", "I", " ", "r", "e", "s", "p", "o", "n", "s", "e">>)}
       ELSE IF parts[1] # <<"P", "I">> THEN {Threw(<<"B", "a", "d", " ", "P", "I", " ", "r", "e", "s", "p", "o", "n", "s", "e">>)}
       ELSE IF Len(parts) < 2 THEN {Crash, Returned(<<FALSE>>), Returned(<<TRUE>>)}
       ELSE {Returned(<<parts[2] = <<"1">>>>)}

\* getAnalogValues(): every part after the first is "channel:value"; the map
\* is modelled as the set of its <<channel, value>> entries.
GetAnalogValues ==
    /\ pc = "idle"
    /\ Start([name |-> "getAnalogValues", args |-> <<>>], <<"A">>, DefaultTimeoutMs)
    /\ UNCHANGED <<lastKnownConfig, queryConfig, hist>>

RECURSIVE AnalogEntries(_, _)
AnalogEntries(parts, values) ==
    IF parts = <<>> THEN {Returned(<<values>>)}
    ELSE LET kv == split(Head(parts), ":")
         IN IF Len(kv) < 2 THEN {Crash, Threw(StoiFailed)}
            ELSE IF ~AllStoi(SubSeq(kv, 1, 2)) THEN {Threw(StoiFailed)}
            ELSE AnalogEntries(Tail(parts),
                    {e \in values : e[1] # stoi(kv[1]).val}
                        \cup {<<stoi(kv[1]).val, stoi(kv[2]).val>>})

getAnalogValuesResults(resp) ==
    LET parts == split(resp, ",")
    IN IF parts = <<>> THEN {Returned(<<{}>>)}
       ELSE AnalogEntries(Tail(parts), {})

EchoOps == {"getDigitalInputs", "getPin", "getAnalogValues"}

EchoResults(o, resp) ==
    CASE o.name = "getDigitalInputs" -> getDigitalInputsResults(resp)
      [] o.name = "getPin" -> getPinResults(resp)
      [] o.name = "getAnalogValues" -> getAnalogValuesResults(resp)
      [] o.name = "readMemory" -> ReadMemoryResults(resp)

RetEcho ==
    /\ pc = "ret"
    /\ op.name \in EchoOps
    /\ IF outcome.threw THEN Finish(Threw(outcome.str))
       ELSE \E r \in EchoResults(op, outcome.str) : Finish(r)
    /\ UNCHANGED <<connected, rx, lastKnownConfig, queryConfig, hist>>

----------------------------------------------------------------------------
(* General status *)

\* The value of a hexadecimal digit character.
XDigitVal(c) ==
    CHOOSE v \in 0..15 :
        \/ HexDigits[v + 1] = c
        \/ v >= 10 /\ <<"a", "b", "c", "d", "e", "f">>[v - 9] = c

RECURSIVE XDigitRun(_)
XDigitRun(s) == IF s = <<>> \/ ~IsXDigit(Head(s)) THEN <<>>
                ELSE <<Head(s)>> \o XDigitRun(Tail(s))

RECURSIVE HexVal(_)
HexVal(ds) ==
    IF ds = <<>> THEN 0
    ELSE 16 * HexVal(SubSeq(ds, 1, Len(ds) - 1)) + XDigitVal(ds[Len(ds)])

\* std::stoi(s, nullptr, 16): an optional sign, an optional "0x" or "0X" that
\* is followed by a hexadecimal digit, then the longest run of hexadecimal
\* digits (at most seven here, so the value fits an int).
stoi16(s) ==
    LET neg == s # <<>> /\ Head(s) = "-"
        body == IF s # <<>> /\ Head(s) \in {"-", "+"} THEN Tail(s) ELSE s
        prefixed == /\ Len(body) >= 3
                    /\ body[1] = "0"
                    /\ body[2] \in {"x", "X"}
                    /\ IsXDigit(body[3])
        run == XDigitRun(IF prefixed THEN SubSeq(body, 3, Len(body)) ELSE body)
    IN [ok |-> run # <<>>, val |-> IF neg THEN -HexVal(run) ELSE HexVal(run)]

\* (statusByte & (1 << b)) != 0, for a non-negative statusByte
bitSet(statusByte, b) == (statusByte \div (2 ^ b)) % 2 # 0

\* The flags in the order of struct GeneralStatus: pinRB5, pinRB2, buttonPrg,
\* penDown, executing, motor1, motor2, fifoEmpty.
getGeneralStatusPlain(resp) ==
    LET statusByte == stoi16(resp)
    IN IF ~statusByte.ok THEN Threw(StoiFailed)
       ELSE Returned(<<bitSet(statusByte.val, 7), bitSet(statusByte.val, 6),
                       bitSet(statusByte.val, 5), bitSet(statusByte.val, 4),
                       bitSet(statusByte.val, 3), bitSet(statusByte.val, 2),
                       bitSet(statusByte.val, 1), bitSet(statusByte.val, 0)>>)

getGeneralStatus(resp) ==
    LET statusByte == stoi16(resp)
    IN IF ~statusByte.ok THEN Threw(StoiFailed)
       ELSE Returned(<<bitSet(statusByte.val, 7), bitSet(statusByte.val, 6),
                       bitSet(statusByte.val, 5), bitSet(statusByte.val, 4),
                       bitSet(statusByte.val, 3), bitSet(statusByte.val, 2),
                       bitSet(statusByte.val, 1), ~bitSet(statusByte.val, 0)>>)

GetGeneralStatus ==
    /\ pc = "idle"
    /\ Start([name |-> "getGeneralStatus", args |-> <<>>], <<"Q", "G">>, DefaultTimeoutMs)
    /\ UNCHANGED <<lastKnownConfig, queryConfig, hist>>

RetGetGeneralStatus ==
    /\ pc = "ret"
    /\ op.name = "getGeneralStatus"
    /\ Finish(IF outcome.threw THEN Threw(outcome.str) ELSE getGeneralStatus(outcome.str))
    /\ UNCHANGED <<connected, rx, lastKnownConfig, queryConfig, hist>>

----------------------------------------------------------------------------
(* Specifications *)

Init ==
    /\ connected = FALSE
    /\ pc = "idle"
    /\ op = [name |-> "none", args |-> <<>>]
    /\ cmd = <<>>
    /\ timeoutMs = 0
    /\ clock = 0
    /\ start = 0
    /\ tock = FALSE
    /\ responseBuffer = <<>>
    /\ outcome = [threw |-> FALSE, str |-> <<>>]
    /\ rx = <<>>
    /\ wire = <<>>
    /\ inbox = <<>>
    /\ devPending = <<>>
    /\ devCur = FALSE
    /\ devMem = [layer |-> 5, node |-> 42, nick |-> <<"a", "b">>]
    /\ lastKnownConfig = <<MOTOR_STEP_DIV16, MOTOR_STEP_DIV16>>
    /\ queryConfig = <<MOTOR_STEP_DIV16, MOTOR_STEP_DIV16>>
    /\ result = NoResult
    /\ hist = NoHistory
    /\ lastByteAt = 0
    /\ drained = FALSE

Exchange == Drain \/ Write \/ Settle

----------------------------------------------------------------------------
(* The motor status *)

\* getMotorStatus(): no handler.
GetMotorStatus ==
    /\ pc = "idle"
    /\ Start([name |-> "getMotorStatus", args |-> <<>>], <<"Q", "M">>, DefaultTimeoutMs)
    /\ UNCHANGED <<lastKnownConfig, queryConfig, hist>>

\* { stoi(parts[1]) > 0, { parts[2] == "1", parts[3] == "1" }, stoi(parts[4]) == 0 }
\* evaluated from left to right, with no test of parts.size() or of parts[0].
getMotorStatusResults(resp) ==
    LET parts == split(resp, ",")
    IN IF Len(parts) >= 2 /\ ~stoi(parts[2]).ok THEN {Threw(StoiFailed)}
       ELSE IF Len(parts) < 5
       THEN {Crash, Threw(StoiFailed)}
                \cup {Returned(<<e, <<a, b>>, f>>) : e \in BOOLEAN, a \in BOOLEAN,
                                                     b \in BOOLEAN, f \in BOOLEAN}
       ELSE IF ~stoi(parts[5]).ok THEN {Threw(StoiFailed)}
       ELSE {Returned(<<stoi(parts[2]).val > 0,
                        <<parts[3] = <<"1">>, parts[4] = <<"1">>>>,
                        stoi(parts[5]).val = 0>>)}

RetGetMotorStatus ==
    /\ pc = "ret"
    /\ op.name = "getMotorStatus"
    /\ IF outcome.threw THEN Finish(Threw(outcome.str))
       ELSE \E r \in getMotorStatusResults(outcome.str) : Finish(r)
    /\ UNCHANGED <<connected, rx, lastKnownConfig, queryConfig, hist>>

\* The device answers QB and QR with the flag and "OK", with or without a line
\* end after each.
FlagReplies ==
    {<<f>> \o sep \o OK \o sep : f \in {"0", "1"}, sep \in {<<>>, <<CR, LF>>}}

DeviceFlag ==
    /\ devPending = <<>>
    /\ inbox # <<>>
    /\ \E r \in FlagReplies : devPending' = r
    /\ devCur' = Head(inbox).cur
    /\ inbox' = Tail(inbox)
    /\ UNCHANGED <<driverVars, rx, devMem>>

\* setPenState(down, duration, pin): "SP,<state>", then the duration if it is
\* not negative, then the pin if it is not negative.
PEN_DOWN == 0
PEN_UP == 1

PenDurations == {-1, 7}

PenPins == {-1, 4}

SpLine(down, duration, pin) ==
    <<"S", "P", ",">> \o toStr(IF down THEN PEN_DOWN ELSE PEN_UP)
        \o (IF duration >= 0 THEN <<",">> \o toStr(duration) ELSE <<>>)
        \o (IF pin >= 0 THEN <<",">> \o toStr(pin) ELSE <<>>)

SetPenState ==
    /\ pc = "idle"
    /\ \E down \in BOOLEAN, duration \in PenDurations, pin \in PenPins :
          Start([name |-> "setPenState", args |-> <<down, duration, pin>>],
                SpLine(down, duration, pin), DefaultTimeoutMs)
    /\ UNCHANGED <<lastKnownConfig, queryConfig, hist>>

RetSetPenState ==
    /\ pc = "ret"
    /\ op.name = "setPenState"
    /\ Finish(SentAndChecked)
    /\ UNCHANGED <<connected, rx, lastKnownConfig, queryConfig, hist>>

\* moveStepperMixedAxis(durationMs, stepsA, stepsB): (1 << 24) - 1 bounds the
\* duration and std::abs of each step count.
StepMax == 16777215

\* std::abs(int): the absolute value of INT_MIN is not an int; the call then
\* gives INT_MIN back or traps.
abs(v) ==
    IF v = IntMin THEN {[trap |-> FALSE, val |-> IntMin], [trap |-> TRUE, val |-> 0]}
    ELSE {[trap |-> FALSE, val |-> IF v < 0 THEN -v ELSE v]}

MixedDurations == {0, 1, StepMax + 1}

MixedSteps == {IntMin, -StepMax, StepMax + 1}

XmLine(durationMs, stepsA, stepsB) ==
    <<"X", "M", ",">> \o toStr(durationMs) \o <<",">> \o toStr(stepsA)
        \o <<",">> \o toStr(stepsB)

MoveStepperMixedAxis ==
    /\ pc = "idle"
    /\ \E durationMs \in MixedDurations, stepsA \in MixedSteps, stepsB \in MixedSteps :
          LET o == [name |-> "moveStepperMixedAxis", args |-> <<durationMs, stepsA, stepsB>>]
          IN IF durationMs < 1 \/ durationMs > StepMax
             THEN Reject(o, <<"D", "u", "r", "a", "t", "i", "o", "n", " ", "o", "u", "t", " ", "o", "f", " ", "r", "a", "n", "g", "e">>)
             ELSE \E a \in abs(stepsA) :
                    IF a.trap THEN Reject(o, Crash.val)
                    ELSE IF a.val > StepMax
                    THEN Reject(o, <<"S", "t", "e", "p", "s", " ", "o", "u", "t", " ", "o", "f", " ", "r", "a", "n", "g", "e">>)
                    ELSE \E b \in abs(stepsB) :
                           IF b.trap THEN Reject(o, Crash.val)
                           ELSE IF b.val > StepMax
                           THEN Reject(o, <<"S", "t", "e", "p", "s", " ", "o", "u", "t", " ", "o", "f", " ", "r", "a", "n", "g", "e">>)
                           ELSE /\ Start(o, XmLine(durationMs, stepsA, stepsB), DefaultTimeoutMs)
                                /\ UNCHANGED <<lastKnownConfig, queryConfig, hist>>

RetMoveStepperMixedAxis ==
    /\ pc = "ret"
    /\ op.name = "moveStepperMixedAxis"
    /\ Finish(SentAndChecked)
    /\ UNCHANGED <<connected, rx, lastKnownConfig, queryConfig, hist>>

Lifecycle == Setup \/ Close

Device == DevicePick \/ DeviceEmit

StoringDevice == DeviceStore \/ DeviceEmit

NextOK == Lifecycle \/ SendCS \/ RetSendCommand \/ Exchange \/ LoopOK \/ Device

SpecOK == Init /\ [][NextOK]_vars

NextMotor ==
    \/ Lifecycle
    \/ EnableMotors
    \/ RetEnableMotors
    \/ GetMotorConfig
    \/ RetGetMotorConfig
    \/ Exchange
    \/ LoopOK
    \/ LoopQM
    \/ Device

SpecMotor == Init /\ [][NextMotor]_vars

NextBoot ==
    \/ Lifecycle
    \/ Reboot
    \/ RetReboot
    \/ EnterBootloader
    \/ RetEnterBootloader
    \/ Exchange
    \/ LoopOK
    \/ Device

SpecBoot == Init /\ [][NextBoot]_vars

NextRange ==
    \/ Lifecycle
    \/ EnableMotors
    \/ RetEnableMotors
    \/ SetLayer
    \/ SetEngraver
    \/ SetNickname
    \/ RetSetter
    \/ MoveAbsolute
    \/ WriteMemory
    \/ RetChecked
    \/ Exchange
    \/ LoopOK
    \/ Device

SpecRange == Init /\ [][NextRange]_vars

\* The calling thread keeps running and the clock keeps advancing; nothing is
\* assumed of the device.
NextLive ==
    \/ Setup
    \/ SendBrief
    \/ RetSendCommand
    \/ Exchange
    \/ LoopOK
    \/ Tick
    \/ Device
    \/ DeviceChatter

Driver == RetSendCommand \/ Exchange \/ LoopOK

SpecLive == Init /\ [][NextLive]_vars /\ WF_vars(Driver) /\ WF_vars(Tick)

NextQuery ==
    \/ Lifecycle
    \/ EmergencyStop
    \/ IsButtonPressed
    \/ GetCurrentInfo
    \/ GetLayer
    \/ IsPenDown
    \/ IsServoPowered
    \/ GetStepPositions
    \/ GetNickname
    \/ GetNodeCount
    \/ RetQuery
    \/ GetMotorConfig
    \/ RetGetMotorConfig
    \/ GetFirmwareVersion
    \/ RetGetFirmwareVersion
    \/ Exchange
    \/ LoopV
    \/ LoopQM
    \/ LoopOK
    \/ Device

SpecQuery == Init /\ [][NextQuery]_vars

NextV == Lifecycle \/ SendV \/ RetSendCommand \/ Exchange \/ LoopV \/ Device

SpecV == Init /\ [][NextV]_vars

NextQG == Lifecycle \/ SendQG \/ RetSendCommand \/ Exchange \/ LoopQG \/ TailQG \/ Device

SpecQG == Init /\ [][NextQG]_vars

NextAnalog ==
    \/ Lifecycle
    \/ ConfigureAnalogInput
    \/ RetChecked
    \/ Exchange
    \/ LoopOK
    \/ Device

SpecAnalog == Init /\ [][NextAnalog]_vars

NextMove ==
    \/ Lifecycle
    \/ MoveAbsolute
    \/ RetChecked
    \/ Exchange
    \/ LoopOK
    \/ Device

SpecMove == Init /\ [][NextMove]_vars

NextStatus ==
    \/ Lifecycle
    \/ GetGeneralStatus
    \/ RetGetGeneralStatus
    \/ Exchange
    \/ LoopQG
    \/ TailQG
    \/ Device

SpecStatus == Init /\ [][NextStatus]_vars

NextSteps ==
    \/ Lifecycle
    \/ GetStepPositions
    \/ RetQuery
    \/ Exchange
    \/ LoopOK
    \/ Device

SpecSteps == Init /\ [][NextSteps]_vars

NextEcho ==
    \/ Lifecycle
    \/ ReadMemory
    \/ RetReadMemory
    \/ GetDigitalInputs
    \/ GetPin
    \/ GetAnalogValues
    \/ RetEcho
    \/ Exchange
    \/ LoopOK
    \/ Device

SpecEcho == Init /\ [][NextEcho]_vars

NextPen ==
    \/ Lifecycle
    \/ IsPenDown
    \/ RetQuery
    \/ Exchange
    \/ LoopOK
    \/ Device

SpecPen == Init /\ [][NextPen]_vars

NextLines ==
    \/ Lifecycle
    \/ SendLines
    \/ RetSendCommand
    \/ Exchange
    \/ LoopOK
    \/ StoringDevice

SpecLines == Init /\ [][NextLines]_vars

NextRaw ==
    \/ Lifecycle
    \/ SendV
    \/ SendQM
    \/ SendCS
    \/ RetSendCommand
    \/ Exchange
    \/ LoopV
    \/ LoopQM
    \/ LoopOK
    \/ Device

SpecRaw == Init /\ [][NextRaw]_vars

NextOptions ==
    \/ Lifecycle
    \/ SetUserOptions
    \/ RetSetUserOptions
    \/ Exchange
    \/ LoopOK
    \/ Device

SpecOptions == Init /\ [][NextOptions]_vars

NextNick ==
    \/ Lifecycle
    \/ SetShortNickname
    \/ RetSetter
    \/ GetNickname
    \/ RetQuery
    \/ Exchange
    \/ LoopOK
    \/ StoringDevice

SpecNick == Init /\ [][NextNick]_vars

NextLayer ==
    \/ Lifecycle
    \/ SetLayer
    \/ RetSetter
    \/ GetLayer
    \/ RetQuery
    \/ Exchange
    \/ LoopOK
    \/ StoringDevice

SpecLayer == Init /\ [][NextLayer]_vars

NextNode ==
    \/ Lifecycle
    \/ SetNodeCount
    \/ RetSetNodeCount
    \/ IncrementNodeCount
    \/ DecrementNodeCount
    \/ RetStepNodeCount
    \/ GetNodeCount
    \/ RetQuery
    \/ Exchange
    \/ LoopOK
    \/ DeviceCount
    \/ DeviceEmit

SpecNode == Init /\ [][NextNode]_vars

NextHalt ==
    \/ Lifecycle
    \/ EmergencyStop
    \/ RetQuery
    \/ Exchange
    \/ LoopOK
    \/ Device

SpecHalt == Init /\ [][NextHalt]_vars

NextMotion ==
    \/ Lifecycle
    \/ GetMotorStatus
    \/ RetGetMotorStatus
    \/ GetMotorConfig
    \/ RetGetMotorConfig
    \/ Exchange
    \/ LoopQM
    \/ Device

SpecMotion == Init /\ [][NextMotion]_vars

NextProcess ==
    \/ Lifecycle
    \/ Replace
    \/ Reboot
    \/ RetReboot
    \/ EnterBootloader
    \/ RetEnterBootloader
    \/ GetMotorConfig
    \/ RetGetMotorConfig
    \/ Exchange
    \/ LoopOK
    \/ LoopQM
    \/ Device

SpecProcess == Init /\ [][NextProcess]_vars

NextFlags ==
    \/ Lifecycle
    \/ IsButtonPressed
    \/ IsServoPowered
    \/ RetQuery
    \/ Exchange
    \/ LoopOK
    \/ DeviceFlag
    \/ DeviceEmit

SpecFlags == Init /\ [][NextFlags]_vars

NextPenState ==
    \/ Lifecycle
    \/ SetPenState
    \/ RetSetPenState
    \/ Exchange
    \/ LoopOK
    \/ Device

SpecPenState == Init /\ [][NextPenState]_vars

NextMixed ==
    \/ Lifecycle
    \/ MoveStepperMixedAxis
    \/ RetMoveStepperMixedAxis
    \/ Exchange
    \/ LoopOK
    \/ Device

SpecMixed == Init /\ [][NextMixed]_vars

NextVersion ==
    \/ Lifecycle
    \/ GetFirmwareVersion
    \/ RetGetFirmwareVersion
    \/ Exchange
    \/ LoopV
    \/ Device

SpecVersion == Init /\ [][NextVersion]_vars

NextQuiet ==
    \/ Lifecycle
    \/ SendV
    \/ SendQG
    \/ SendQM
    \/ RetSendCommand
    \/ Exchange
    \/ LoopV
    \/ LoopQG
    \/ TailQG
    \/ LoopQM
    \/ Device

SpecQuiet == Init /\ [][NextQuiet]_vars

----------------------------------------------------------------------------
(* Properties of the framing loops *)

Returning == pc = "ret" /\ ~outcome.threw

Throwing == pc = "ret" /\ outcome.threw

TagsOf(buf) == {buf[i].tag : i \in 1..Len(buf)}

C8_WithinPollOfTimeout ==
    Throwing => /\ clock <= timeoutMs + PollMs
                /\ clock >= timeoutMs - PollMs

\* C8 as amended: the deadline is counted from the start timestamp the loop
\* takes after the 10 ms settle sleep, so the timeout error is thrown more
\* than timeoutMs + 10 ms and (sleeps being exact) at most timeoutMs + 11 ms
\* after the command was written.
C8_AfterSettlePlusTimeout ==
    Throwing => /\ clock > timeoutMs + SettleMs
                /\ clock <= timeoutMs + SettleMs + PollMs

\* A call with a non-zero timeout that received bytes but no terminator.
C8_TimedOutWithPartial == Throwing /\ timeoutMs > 0 /\ responseBuffer # <<>>

IsTwoHex(s) == Len(s) = 2 /\ IsXDigit(s[1]) /\ IsXDigit(s[2])

\* C9 as stated: whenever sendCommand("QG") returns, the returned string is
\* exactly two hexadecimal digits.
C9_AlwaysTwoHex == (Returning /\ Kind(cmd) = "QG") => IsTwoHex(outcome.str)

\* C9 as amended: whenever sendCommand("QG") returns, the returned string is
\* non-empty and free of CR and LF, and it is exactly two hexadecimal digits
\* unless the loop was left by its quiet exit, more than 100 ms after the
\* loop's start.
C9_TwoHexOrQuietExit ==
    (Returning /\ Kind(cmd) = "QG") =>
        /\ outcome.str # <<>>
        /\ \A i \in 1..Len(outcome.str) : outcome.str[i] \notin {CR, LF}
        /\ IsTwoHex(outcome.str) \/ QuietOver(elapsed)

\* A QG call that returned two hex digits before the quiet window was over.
C9_ReturnedTwoHexEarly ==
    Returning /\ Kind(cmd) = "QG" /\ IsTwoHex(outcome.str) /\ ~QuietOver(elapsed)

\* C10 as stated: the V exchange is complete only when at least 100 ms have
\* passed since the most recently received byte.
C10_QuietSinceLastByte ==
    (Returning /\ Kind(cmd) = "V") => clock - lastByteAt >= QuietMs

\* The commands framed by a quiet period.
QuietKinds == {"V", "QG", "QM"}

\* C11: a V, QG or QM call never completes its framing while it has read no
\* byte: a call that read nothing ends with the timeout error, and a call that
\* returns has read at least one byte.
C11_NothingReadThenTimeout ==
    (pc = "ret" /\ Kind(cmd) \in QuietKinds)
        => /\ lastByteAt = 0 => outcome = [threw |-> TRUE, str |-> TimedOut(cmd)]
           /\ ~outcome.threw => lastByteAt >= start /\ start > 0

\* A V, QG or QM call that read nothing although its deadline lies after the
\* quiet window, and ended with the timeout error.
C11_SilentPastQuietWindow ==
    /\ pc = "ret"
    /\ Kind(cmd) \in QuietKinds
    /\ connected
    /\ lastByteAt = 0
    /\ timeoutMs > QuietMs
    /\ outcome.threw

\* C12: a call for a command other than V, QG and QM returns exactly when the
\* bytes it accumulated contain "OK", and otherwise throws the timeout error;
\* it accumulates no byte after its deadline and throws only after it.
C12_ReturnsIffOkAccumulated ==
    /\ (pc = "ret" /\ Kind(cmd) = "OK")
          => /\ ~outcome.threw <=> Contains(Chars(responseBuffer), OK)
             /\ outcome.threw => /\ outcome.str = TimedOut(cmd)
                                 /\ Expired(elapsed, timeoutMs)
             /\ lastByteAt > 0 => ~Expired(lastByteAt - start, timeoutMs)
    /\ (pc = "loop" /\ Kind(cmd) = "OK") => ~Contains(Chars(responseBuffer), OK)

\* A call that returned on an "OK" that followed other accumulated bytes.
C12_ReturnedOnOkAfterOtherBytes ==
    /\ pc = "ret"
    /\ Kind(cmd) = "OK"
    /\ ~outcome.threw
    /\ Len(responseBuffer) > Len(OK)

----------------------------------------------------------------------------
(* Properties of the facade *)

Ended(name) == pc = "idle" /\ op.name = name

\* C2: after enableMotors(m1, m2) with both modes in 0..5 was acknowledged
\* with OK, a later getMotorConfig (here: one whose QM exchange completed)
\* returns (m1, m2), except that a slot a QM reply since then reported as not
\* moving is returned as MOTOR_DISABLE.
C2_ConfigIsLastEnabled ==
    (Ended("getMotorConfig") /\ ~outcome.threw /\ hist.ack # <<>>) =>
        \A i \in 1..2 :
            result.val[i] = IF hist.idle[i] THEN MOTOR_DISABLE ELSE hist.ack[i]

OutOfRange ==
    CASE op.name = "enableMotors" -> \E i \in 1..2 : op.args[i] \notin ModeRange
      [] op.name = "setLayer" -> op.args[1] \notin 0..LayerMax
      [] op.name = "setEngraver" -> op.args[2] \notin 0..PowerMax
      [] op.name = "setNickname" -> Len(op.args[1]) > NickMax
      [] op.name = "moveAbsolute" -> op.args[1] \notin FreqMin..FreqMax
      [] op.name = "readMemory" -> op.args[1] \notin 0..AddressMax
      [] op.name = "writeMemory" -> \/ op.args[1] \notin 0..AddressMax
                                    \/ op.args[2] \notin 0..ByteMax
      [] OTHER -> FALSE

Failed ==
    \/ result.status = "threw"
    \/ /\ op.name \in {"setLayer", "setEngraver", "setNickname"}
       /\ result = Returned(<<FALSE>>)

\* C3: an operation called with an argument outside its documented range
\* writes no byte to the transport and ends with an error.
C3_OutOfRangeNeverSent ==
    OutOfRange => wire = <<>> /\ (pc = "idle" => Failed)

\* The exchange of the operation that ended timed out, or the operation's
\* decoder threw on its reply.
ExchangeFailed ==
    \/ outcome.threw
    \/ /\ op.name \in QueryOps \ {"getMotorConfig"}
       /\ Decoded(op, outcome.str).status = "threw"

\* C4 as stated: an operation whose exchange timed out or whose reply could
\* not be decoded reports a failure; no query operation returns a default.
C4_FailureIsReported ==
    (pc = "idle" /\ op.name \in QueryOps \cup {"getFirmwareVersion"}
                 /\ ExchangeFailed)
        => result.status = "threw"

\* C4 as amended: each of the ten query operations whose exchange timed out or
\* whose decoder threw returns its fixed default value; an operation without
\* a handler (getFirmwareVersion) ends with sendCommand's timeout exception.
C4_HandlersReturnDefault ==
    /\ (pc = "idle" /\ op.name \in QueryOps /\ ExchangeFailed)
          => result.status = "returned" /\ result.val = Default(op.name)
    /\ (Ended("getFirmwareVersion") /\ outcome.threw)
          => result.status = "threw" /\ result.val = outcome.str

\* A query whose exchange completed and whose decoder threw on the reply.
C4_DecoderThrew ==
    /\ pc = "idle"
    /\ op.name \in QueryOps \ {"getMotorConfig"}
    /\ ~outcome.threw
    /\ Decoded(op, outcome.str).status = "threw"

\* C5: when reboot() or enterBootloader() has ended, the command line has
\* been written and the transport is closed.
C5_ClosedAfterBoot ==
    (Ended("reboot") \/ Ended("enterBootloader")) =>
        Len(wire) = 1 /\ ~connected

\* C6: while the driver is disconnected no exchange is in progress, and an
\* operation other than setup, close, reboot and enterBootloader that ended
\* threw an error and wrote nothing.
C6_NotConnectedFailsFast ==
    ~connected =>
        /\ pc = "idle"
        /\ op.name \notin {"none", "setup", "close", "reboot", "enterBootloader"}
              => result.status = "threw" /\ wire = <<>>

\* The characters of the accumulated bytes that answer the running command.
OwnChars(buf) == Chars(SelectSeq(buf, LAMBDA b : b.tag = "own"))

\* Operations that expect a bare OK and pass the response to checkOk.
CheckedOps == {"enableMotors", "moveAbsolute", "writeMemory"}

\* C13: when the device has answered the command of an operation that expects
\* a bare OK with an error line, the operation ends with the unexpected-status
\* error, not with success and not with the timeout error at the deadline.
C13_ErrorLineIsUnexpectedStatus ==
    (pc = "ret" /\ op.name \in CheckedOps /\ OwnChars(responseBuffer) = <<"!", "O">>)
        => /\ SentAndChecked.status = "threw"
           /\ SentAndChecked.val # TimedOut(cmd)
           /\ ~Expired(elapsed, timeoutMs)

\* Bit k of the byte b.
BitOf(b, k) == b % (2 ^ (k + 1)) >= 2 ^ k

\* The flags C16 names for the status byte b, in the order pinRB5, pinRB2,
\* buttonPrg, penDown, executing, motor1, motor2, fifoEmpty.
StatusFlags(b) ==
    <<BitOf(b, 7), BitOf(b, 6), BitOf(b, 5), BitOf(b, 4), BitOf(b, 3), BitOf(b, 2),
      BitOf(b, 1), ~BitOf(b, 0)>>

\* C16: when the QG call of getGeneralStatus has accumulated exactly the two
\* hexadecimal digits of the status byte b the device reported, the operation
\* returns pinRB5 = bit 7, pinRB2 = bit 6, buttonPrg = bit 5, penDown = bit 4,
\* executing = bit 3, motor1 = bit 2, motor2 = bit 1 and fifoEmpty = NOT bit 0;
\* and the decoder gives these flags for the two digits of every b in 0..255.
C16_StatusFlagsDecoded ==
    [][(/\ pc = "ret"
        /\ pc' = "idle"
        /\ op.name = "getGeneralStatus"
        /\ TagsOf(responseBuffer) = {"own"})
          => /\ \A b \in StatusBytes :
                   Chars(responseBuffer) = Hex2(b) => result' = Returned(StatusFlags(b))
             /\ \A b \in 0..255 :
                   getGeneralStatus(Hex2(b)) = Returned(StatusFlags(b))]_vars

\* getGeneralStatus ended on the status byte 0x01: fifoEmpty false like every
\* other flag.
C16_ReturnedFifoNotEmpty ==
    /\ Ended("getGeneralStatus")
    /\ ~outcome.threw
    /\ outcome.str = Hex2(1)
    /\ result = Returned(<<FALSE, FALSE, FALSE, FALSE, FALSE, FALSE, FALSE, FALSE>>)

\* The line C17 names for moveAbsolute(f, p1, p2).
HmLine(f, p1, p2) ==
    <<"H", "M", ",">> \o toStr(f) \o <<",">> \o toStr(p1) \o <<",">> \o toStr(p2) \o <<CR>>

\* C17: moveAbsolute(f, p1, p2) with 2 <= f <= 25000 has written nothing
\* before its write step and exactly the one line "HM,f,p1,p2" with a single
\* carriage return from then on (for (25000, 0, -5): "HM,25000,0,-5\r"); it
\* ends normally with no payload exactly when its exchange found the OK, and
\* with the exchange's error otherwise.
C17_MoveWritesOneLine ==
    (op.name = "moveAbsolute" /\ op.args[1] \in FreqMin..FreqMax)
        => /\ wire = IF pc \in {"drain", "write"} THEN <<>>
                     ELSE <<HmLine(op.args[1], op.args[2], op.args[3])>>
           /\ (op.args = <<25000, 0, -5>> /\ pc \notin {"drain", "write"})
                 => wire = <<<<"H", "M", ",", "2", "5", "0", "0", "0", ",", "0", ",", "-", "5", CR>>>>
           /\ pc = "ret" => (~outcome.threw <=> Contains(Chars(responseBuffer), OK))
           /\ pc = "idle" => result = IF outcome.threw THEN Threw(outcome.str)
                                      ELSE Returned(<<>>)

\* moveAbsolute(25000, 0, -5) ended normally after the device's OK.
C17_MoveAcknowledged ==
    /\ Ended("moveAbsolute")
    /\ op.args = <<25000, 0, -5>>
    /\ ~outcome.threw
    /\ result = Returned(<<>>)

\* C18: configureAnalogInput(channel, enable) with 0 <= channel <= 15 has
\* written nothing before its write step and the one line "AC,channel,0|1"
\* from then on (for (15, true): "AC,15,1\r"); with any other channel it has
\* thrown and written nothing.
C18_ChannelRangeGuardsWrite ==
    (op.name = "configureAnalogInput")
        => IF op.args[1] \in 0..15
           THEN /\ wire = IF pc \in {"drain", "write"} THEN <<>>
                          ELSE <<<<"A", "C", ",">> \o toStr(op.args[1]) \o <<",">>
                                   \o (IF op.args[2] THEN <<"1">> ELSE <<"0">>) \o <<CR>>>>
                /\ (op.args = <<15, TRUE>> /\ pc \notin {"drain", "write"})
                      => wire = <<<<"A", "C", ",", "1", "5", ",", "1", CR>>>>
                /\ pc = "idle" => result # Threw(<<"A", "n", "a", "l", "o", "g", " ", "c", "h", "a", "n", "n", "e", "l", " ", "o", "u", "t", " ", "o", "f", " ", "r", "a", "n", "g", "e">>)
           ELSE /\ pc = "idle"
                /\ wire = <<>>
                /\ result = Threw(<<"A", "n", "a", "l", "o", "g", " ", "c", "h", "a", "n", "n", "e", "l", " ", "o", "u", "t", " ", "o", "f", " ", "r", "a", "n", "g", "e">>)

\* configureAnalogInput(16, enable) on a connected driver: thrown, nothing
\* written.
C18_Channel16Rejected ==
    /\ Ended("configureAnalogInput")
    /\ connected
    /\ op.args[1] = 16
    /\ wire = <<>>
    /\ result.status = "threw"

\* C19: both slots of the motor configuration cache -- the static that
\* enableMotors records into and the one getMotorConfig returns -- hold one
\* of the modes MOTOR_DISABLE .. MOTOR_STEP_DIV1.
C19_CacheHoldsModes ==
    \A i \in 1..2 : lastKnownConfig[i] \in ModeRange /\ queryConfig[i] \in ModeRange

\* C20: the cache enableMotors records into changes only in the step in which
\* an enableMotors call ends successfully, that is, after its EM command was
\* acknowledged; a call that fails leaves it as it was.
C20_CacheWrittenOnlyOnAck ==
    [][lastKnownConfig' # lastKnownConfig
          => /\ pc = "ret"
             /\ op.name = "enableMotors"
             /\ pc' = "idle"
             /\ result'.status = "returned"]_vars

\* The field values carried by the device's reply to each echoing query.
EchoFields(name) ==
    CASE name = "readMemory" -> <<7>>
      [] name = "getPin" -> <<TRUE>>
      [] name = "getDigitalInputs" -> <<1, 2, 3, 4, 5>>
      [] name = "getAnalogValues" -> <<{<<0, 5>>}>>

\* C14: when the call of an echoing query (I, MR, PI, A) has accumulated
\* exactly the device's reply to it -- the opcode echo, the fields, then OK --
\* the operation returns the field values of that reply.
C14_EchoReplyDecoded ==
    (/\ pc = "ret"
     /\ op.name \in EchoOps \cup {"readMemory"}
     /\ TagsOf(responseBuffer) = {"own"}
     /\ Chars(responseBuffer) \in Replies(Opcode(cmd)))
        => /\ ~outcome.threw
           /\ \A r \in EchoResults(op, outcome.str) :
                 r.status = "returned" /\ r.val = EchoFields(op.name)

\* C15: when the QS call of getStepPositions has accumulated exactly the
\* device's reply "<a>,<b>OK", with a and b among the modelled step values
\* (negative, zero and positive), the operation returns the pair (a, b).
C15_StepReplyDecoded ==
    [][(/\ pc = "ret"
        /\ pc' = "idle"
        /\ op.name = "getStepPositions"
        /\ TagsOf(responseBuffer) = {"own"})
          => \A a, b \in StepValues :
                Chars(responseBuffer) = StepReply(a, b) => result' = Returned(<<a, b>>)]_vars

\* getStepPositions ended with a negative, multi-digit first position.
C15_ReturnedNegativePosition ==
    /\ Ended("getStepPositions")
    /\ ~outcome.threw
    /\ outcome.str = toStr(-15) \o <<",">> \o toStr(7)
    /\ result = Returned(<<-15, 7>>)

\* The slots the QM reply of the getMotorConfig call that ended reports as
\* moving.
ReportedMoving(i) ==
    LET parts == split(outcome.str, ",")
    IN Len(parts) >= 4 /\ parts[i + 2] = <<"1">>

\* C21: once a completed getMotorConfig call has narrowed a slot to
\* MOTOR_DISABLE because its QM reply reported the motor as not moving, the
\* slot never changes back, and every later getMotorConfig call that completes
\* its QM exchange returns MOTOR_DISABLE for it, whatever its reply reports.
C21_NarrowedSlotStaysDisabled ==
    [][\A i \in 1..2 :
          /\ queryConfig[i] = MOTOR_DISABLE => queryConfig'[i] = MOTOR_DISABLE
          /\ (pc = "ret" /\ pc' = "idle" /\ op.name = "getMotorConfig"
                 /\ ~outcome.threw /\ hist.idle[i])
                => result'.val[i] = MOTOR_DISABLE]_vars

\* A completed getMotorConfig call whose reply reports motor 2 as moving after
\* an earlier reply had reported it as not moving: the slot is still disabled.
C21_MovingAfterNarrowed ==
    /\ Ended("getMotorConfig")
    /\ ~outcome.threw
    /\ hist.idle[2]
    /\ ReportedMoving(2)
    /\ result = Returned(<<MOTOR_STEP_DIV16, MOTOR_DISABLE>>)

\* C22: getMotorConfig never throws, and the pair it returns is the pair the
\* cache holds when it ends, also when its QM exchange timed out.
C22_ReturnsCachedPair ==
    Ended("getMotorConfig") => result = Returned(queryConfig)

\* C23: when the QP call of isPenDown has accumulated exactly the device's
\* reply "0OK" the operation returns true, and when it has accumulated exactly
\* "1OK" it returns false.
C23_PenStateDecoded ==
    [][(/\ pc = "ret"
        /\ pc' = "idle"
        /\ op.name = "isPenDown"
        /\ TagsOf(responseBuffer) = {"own"})
          => /\ Chars(responseBuffer) = <<"0", "O", "K">> => result' = Returned(<<TRUE>>)
             /\ Chars(responseBuffer) = <<"1", "O", "K">> => result' = Returned(<<FALSE>>)]_vars

\* C24: a sendCommand call with numLines = 2 that returns after the device
\* answered its command with a payload line and a status line returns both
\* lines: the returned string holds the payload and the status.
C24_TwoLinesReturned ==
    (/\ Returning
     /\ op.name = "sendCommand"
     /\ op.args[2] = 2
     /\ TagsOf(responseBuffer) = {"own"})
        => /\ Contains(outcome.str, NatStr(devMem.layer))
           /\ Contains(outcome.str, OK)

\* The QM loop returns on these accumulated bytes, and times out on all others.
QmFramed(bytes) ==
    \/ bytes # <<>> /\ bytes[Len(bytes)] = LF
    \/ Find(bytes, <<"Q", "M", ",">>) = 1 /\ Len(bytes) >= QmMinLen

\* What a query makes of the response sendCommand builds from the bytes.
OfResponse(name, args, resp) ==
    CASE name = "getStepPositions" -> getStepPositions(resp)
      [] name = "isButtonPressed" -> isButtonPressed(resp)
      [] name = "isServoPowered" -> isServoPowered(resp)
      [] name = "isPenDown" -> isPenDown(resp)
      [] name = "getLayer" -> getLayer(resp)
      [] name = "getNodeCount" -> getNodeCount(resp)
      [] name = "getNickname" -> getNickname(resp)
      [] name = "getCurrentInfo" -> getCurrentInfo(resp, args[1])
      [] name = "emergencyStop" -> emergencyStop(resp)

\* The result of a query as a function of the bytes its exchange accumulated
\* and, for getMotorConfig alone, of the cache as the call found it.
OfBytes(name, args, c, bytes, cache) ==
    IF name = "getMotorConfig"
    THEN IF QmFramed(bytes)
         THEN Returned(narrow(cache, split(QmClean(bytes), ",")))
         ELSE Returned(<<MOTOR_STEP_DIV16, MOTOR_STEP_DIV16>>)
    ELSE IF ~Contains(bytes, OK) THEN Returned(Default(name))
    ELSE LET r == OfResponse(name, args, PostProcess(c, bytes))
         IN IF r.status = "threw" THEN Returned(Default(name)) ELSE r

\* C25 as stated, for getMotorConfig and the reply "QM,1,1,1,0": every call
\* that received this reply returns the same pair, which is the pair the first
\* call of a fresh driver returns for it, (MOTOR_STEP_DIV16, MOTOR_STEP_DIV16).
C25_SameReplySameConfig ==
    (Ended("getMotorConfig") /\ ~outcome.threw /\ outcome.str = <<"Q", "M", ",", "1", ",", "1", ",", "1", ",", "0">>)
        => result = Returned(<<MOTOR_STEP_DIV16, MOTOR_STEP_DIV16>>)

\* C25 as amended: the result of each of the ten query operations is a
\* function of the bytes its exchange accumulated alone, except that the pair
\* getMotorConfig returns is a function of those bytes and of the cache that
\* earlier QM replies have narrowed.
C25_ResultFromBytesAndCache ==
    [][(pc = "ret" /\ pc' = "idle" /\ op.name \in QueryOps)
          => result' = OfBytes(op.name, op.args, cmd, Chars(responseBuffer),
                               queryConfig)]_vars

\* getMotorConfig received the reply "QM,1,1,1,0" and returned a disabled
\* second slot, as an earlier reply had left it in the cache.
C25_SameReplyOtherConfig ==
    /\ Ended("getMotorConfig")
    /\ ~outcome.threw
    /\ outcome.str = <<"Q", "M", ",", "1", ",", "1", ",", "1", ",", "0">>
    /\ result = Returned(<<MOTOR_STEP_DIV16, MOTOR_DISABLE>>)

\* C26: a sendCommand call has written nothing while it drains and until its
\* write step, and exactly one line, the command and one carriage return, from
\* then on until it has returned or thrown; no byte is read into the response
\* accumulator before the write; and when the write step is reached the drain
\* has left no byte of an earlier exchange in the transport.
C26_OneWritePerCall ==
    op.name = "sendCommand"
        => /\ wire = IF pc \in {"drain", "write"} THEN <<>>
                     ELSE <<op.args[1] \o <<CR>>>>
           /\ pc \in {"drain", "write"} => responseBuffer = <<>> /\ lastByteAt = 0
           /\ pc \notin {"idle", "drain"} => "stale" \notin TagsOf(rx)

\* A call that discarded bytes in its drain loop, wrote its line once and
\* threw the timeout error with bytes accumulated.
C26_DrainedWroteOnceThrew ==
    /\ Throwing
    /\ op.name = "sendCommand"
    /\ drained
    /\ wire = <<cmd \o <<CR>>>>
    /\ responseBuffer # <<>>

\* C27: whenever the driver writes a command line, the device owes no reply
\* to an earlier line: it has no unanswered line, no reply it is still
\* emitting, and no emitted byte is left unread in the transport.
C27_NoWriteWhileReplyOutstanding ==
    [][(pc = "write" /\ pc' = "settle")
          => inbox = <<>> /\ devPending = <<>> /\ rx = <<>>]_vars

\* The call of the operation `name' ends now, having returned on bytes that
\* are all part of the device's reply to its own command.
EndsOnOwnReply(name) ==
    /\ pc = "ret"
    /\ pc' = "idle"
    /\ op.name = name
    /\ ~outcome.threw
    /\ TagsOf(responseBuffer) = {"own"}

\* C28: against a device that keeps the nickname, a setNickname(n) with n of
\* at most 16 characters that the device acknowledged has left n in the
\* device, and a getNickname call that the device answered with the nickname
\* it holds, a line end and OK returns exactly that nickname.
C28_NicknameRoundTrip ==
    [][/\ (EndsOnOwnReply("setNickname") /\ Len(op.args[1]) <= NickMax)
             => devMem.nick = op.args[1]
       /\ EndsOnOwnReply("getNickname")
             => result' = Returned(<<devMem.nick>>)]_vars

\* C29: against a device that keeps the layer, a setLayer(n) with n in 0..127
\* that the device acknowledged has left n in the device, and a getLayer call
\* that the device answered with the layer it holds followed by OK returns
\* that layer.
C29_LayerRoundTrip ==
    [][/\ (EndsOnOwnReply("setLayer") /\ op.args[1] \in 0..LayerMax)
             => devMem.layer = op.args[1]
       /\ EndsOnOwnReply("getLayer")
             => result' = Returned(<<devMem.layer>>)]_vars

\* The bytes accumulated besides the device's reply to the running command
\* are line ends only.
OnlyLineEndsBesidesOwn ==
    \A i \in 1..Len(responseBuffer) :
        responseBuffer[i].tag = "own" \/ responseBuffer[i].ch \in {CR, LF}

\* C30: against a device that keeps the node counter, hist.count follows the
\* acknowledged calls: v after setNodeCount(v), one more after
\* incrementNodeCount, one less after decrementNodeCount.  Between calls the
\* device holds that count, and a getNodeCount call that the device answered
\* with the count it holds followed by OK returns it; the decoder gives v for
\* the reply "<v>OK" and for "<v>\r\nOK" for every node count v of the model.
C30_NodeCountFollowsCalls ==
    [][/\ (pc = "idle" /\ hist.count # Unknown) => devMem.node = hist.count
       /\ (/\ pc = "ret"
           /\ pc' = "idle"
           /\ op.name = "getNodeCount"
           /\ ~outcome.threw
           /\ hist.count # Unknown
           /\ OwnAck
           /\ OnlyLineEndsBesidesOwn)
             => result' = Returned(<<hist.count>>)
       /\ (pc = "ret" /\ pc' = "idle" /\ op.name = "getNodeCount")
             => \A v \in NodeCounts :
                   /\ getNodeCount(PostProcess(cmd, NatStr(v) \o OK)) = Returned(<<v>>)
                   /\ getNodeCount(PostProcess(cmd, NatStr(v) \o <<CR, LF>> \o OK))
                         = Returned(<<v>>)]_vars

\* getNodeCount returned v + 1 for the largest v of the model, after
\* setNodeCount(v) and incrementNodeCount were acknowledged.
C30_ReturnedIncrementedCount ==
    /\ Ended("getNodeCount")
    /\ ~outcome.threw
    /\ hist.count = NodeCap - 4
    /\ result = Returned(<<NodeCap - 4>>)

\* C31: when the ES call of emergencyStop has accumulated exactly the device's
\* reply "1,2,3,4,5OK", the operation returns the interrupted flag true, the
\* FIFO step counts (2, 3) and the remaining step counts (4, 5).
C31_StopInfoDecoded ==
    [][(EndsOnOwnReply("emergencyStop")
        /\ Chars(responseBuffer) = <<"1", ",", "2", ",", "3", ",", "4", ",", "5", "O", "K">>)
          => result' = Returned(<<TRUE, <<2, 3>>, <<4, 5>>>>)]_vars

\* The response has the echo "QM" and four fields after it.
EchoedStatus(resp) ==
    LET parts == split(resp, ",")
    IN Len(parts) = 5 /\ parts[1] = <<"Q", "M">>

\* C32: a getMotorStatus call whose QM exchange returned a response without
\* the echo "QM" or without four fields after it fails with an error: it
\* returns no status and does not read past the fields of the response.
C32_StatusOnlyFromEchoedReply ==
    [][(/\ pc = "ret"
        /\ pc' = "idle"
        /\ op.name = "getMotorStatus"
        /\ ~outcome.threw
        /\ ~EchoedStatus(outcome.str))
          => (result'.status = "threw" /\ result' # Crash)]_vars

\* C33: when a getMotorStatus call returns a status decoded from an echoed QM
\* reply, every slot of the cache getMotorConfig returns whose motor the reply
\* reported as not moving holds MOTOR_DISABLE.
C33_StatusNarrowsCache ==
    [][(/\ pc = "ret"
        /\ pc' = "idle"
        /\ op.name = "getMotorStatus"
        /\ ~outcome.threw
        /\ EchoedStatus(outcome.str)
        /\ result'.status = "returned")
          => \A i \in 1..2 :
                NotMoving(split(outcome.str, ","))[i] => queryConfig'[i] = MOTOR_DISABLE]_vars

\* C34: a step of setup, close, reboot, enterBootloader or of the replacement
\* of the driver instance leaves both motor configuration statics as they are,
\* a slot of getMotorConfig's cache that holds MOTOR_DISABLE keeps it, and a
\* getMotorConfig call that completes its QM exchange returns MOTOR_DISABLE for
\* every slot narrowed before, through whichever connection or instance.
C34_CacheOutlivesConnection ==
    [][/\ (\/ op'.name \in {"setup", "close", "construct"}
           \/ op.name \in {"reboot", "enterBootloader"}
           \/ op'.name \in {"reboot", "enterBootloader"})
             => (queryConfig' = queryConfig /\ lastKnownConfig' = lastKnownConfig)
       /\ \A i \in 1..2 :
             /\ queryConfig[i] = MOTOR_DISABLE => queryConfig'[i] = MOTOR_DISABLE
             /\ (pc = "ret" /\ pc' = "idle" /\ op.name = "getMotorConfig"
                    /\ ~outcome.threw /\ hist.idle[i])
                   => result'.val[i] = MOTOR_DISABLE]_vars

\* A getMotorConfig call on a new driver instance, after a reconnect, whose
\* reply reports motor 2 as moving: the slot narrowed through the earlier
\* instance is still disabled.
C34_DisabledOnNewInstance ==
    /\ Ended("getMotorConfig")
    /\ ~outcome.threw
    /\ hist.replaced
    /\ hist.idle[2]
    /\ ReportedMoving(2)
    /\ result = Returned(<<MOTOR_STEP_DIV16, MOTOR_DISABLE>>)

\* C35: when the QB call of isButtonPressed or the QR call of isServoPowered
\* has accumulated the device's reply to it up to the OK marker, the operation
\* returns true exactly when the payload before the marker, line end bytes
\* set aside, is "1".
C35_FlagBeforeOkDecoded ==
    [][(EndsOnOwnReply("isButtonPressed") \/ EndsOnOwnReply("isServoPowered"))
          => result' = Returned(<<Without(BeforeOk(Chars(responseBuffer)), {CR, LF})
                                     = <<"1">>>>)]_vars

\* C36: the exception with which a sendCommand call times out holds the
\* command text and the response bytes accumulated before the deadline.
C36_TimeoutCarriesPartial ==
    Throwing => /\ Contains(outcome.str, cmd)
                /\ Contains(outcome.str, Chars(responseBuffer))

\* C37: the line a setPenState(down, duration, pin) call with pin >= 0 has
\* written has three argument fields after "SP", and the third is the pin.
C37_PinIsThirdField ==
    (op.name = "setPenState" /\ op.args[3] >= 0 /\ wire # <<>>)
        => LET fields == split(Without(wire[1], {CR}), ",")
           IN Len(fields) = 4 /\ fields[4] = toStr(op.args[3])

\* C38: a moveStepperMixedAxis call whose duration is outside 1..2^24-1 or
\* one of whose step counts is outside -(2^24-1)..2^24-1 has ended with an
\* exception and has written nothing.
C38_MixedRangeGuardsWrite ==
    (/\ op.name = "moveStepperMixedAxis"
     /\ \/ op.args[1] < 1
        \/ op.args[1] > StepMax
        \/ \E i \in 2..3 : op.args[i] < -StepMax \/ op.args[i] > StepMax)
        => /\ pc = "idle"
           /\ wire = <<>>
           /\ result.status = "threw"
           /\ result # Crash

\* C39: a getFirmwareVersion call ends either with sendCommand's timeout
\* exception or by returning the bytes its V exchange received, of which there
\* is at least one: it never returns the empty string.
C39_VersionNeverEmpty ==
    [][(pc = "ret" /\ pc' = "idle" /\ op.name = "getFirmwareVersion")
          => IF outcome.threw THEN result' = Threw(TimedOut(<<"V">>))
             ELSE /\ responseBuffer # <<>>
                  /\ result' = Returned(Chars(responseBuffer))]_vars

\* getFirmwareVersion returned after a single byte of the reply had arrived.
C39_ReturnedOneByte ==
    /\ Ended("getFirmwareVersion")
    /\ ~outcome.threw
    /\ result = Returned(<<"E">>)

\* C7: every sendCommand call eventually ends.
C7_EveryCallEnds == (pc # "idle") ~> (pc = "idle")

\* Every polling loop that was entered ends: its deadline is checked at every
\* iteration.
LoopEnds == (pc = "loop") ~> (pc = "idle")

====
